---- MODULE Spec2Model ----
(***************************************************************************)
(* A model of dwarflint (src/src/dwarflint.c): the bounds-checked reader,  *)
(* the coverage set, the address and reference records, the abbreviation   *)
(* loader, the DIE walker and the cross-reference checks.                  *)
(*                                                                         *)
(* Numbers read from a section are 64-bit quantities.  TLC's integers stop *)
(* at 2^31 - 1, so such a quantity is kept as the set of the positions of  *)
(* its one bits (a subset of 0..63); offsets into a section stay naturals. *)
(***************************************************************************)
EXTENDS Integers, Sequences, FiniteSets, TLC

VARIABLES
    rctx,      \* reader test bench: the read_ctx the operations work on
    rlast,     \* reader test bench: the last operation and what it returned
    cov,       \* coverage test bench: the struct coverage
    cov_marked,\* coverage test bench: the indices passed to coverage_add so far
    cov_holes, \* coverage test bench: the callback calls of coverage_find_holes
    ab_in,     \* abbrev loader bench: the bytes of .debug_abbrev
    ab_out,    \* abbrev loader bench: what abbrev_table_load returned
    info,      \* .debug_info check: the state of check_debug_info_structural
    tab,       \* aranges / pubnames check: the state of the table loop
    out,       \* message bench: the criteria, what was printed, error_count
    rec,       \* address record bench: the struct addr_record and the adds made
    rules      \* check rules bench: the check_rules and the last should_check

vars == <<rctx, rlast, cov, cov_marked, cov_holes, ab_in, ab_out, info, tab, out, rec,
          rules>>

(***************************************************************************)
(* 64-bit quantities as sets of bit positions.                             *)
(***************************************************************************)
WordBits == 64

Pow2(n) == 2 ^ n

\* The bits of a natural below 2^31.
NatToBits(n) == { i \in 0..30 : (n \div Pow2(i)) % 2 = 1 }

\* Whether the quantity is below 2^31, so that it is a TLC natural.
U64Small(b) == \A i \in b : i <= 30

RECURSIVE BitsSum(_, _)
BitsSum(b, i) ==
    IF i > 30 THEN 0
    ELSE (IF i \in b THEN Pow2(i) ELSE 0) + BitsSum(b, i + 1)

\* The natural a small quantity stands for.
BitsToNat(b) == BitsSum(b, 0)

Max(S) == CHOOSE x \in S : \A y \in S : y <= x

\* a < b, a <= b on 64-bit quantities: the highest differing bit decides.
U64Lt(a, b) ==
    LET d == (a \ b) \cup (b \ a)
    IN  d # {} /\ Max(d) \in b

U64Le(a, b) == a = b \/ U64Lt(a, b)

\* payload << shift, truncated to 64 bits.
ShiftLeft(b, shift) == { i + shift : i \in b } \cap (0 .. WordBits - 1)

RECURSIVE AddCarry(_, _, _, _)
AddCarry(a, b, i, carry) ==
    IF i >= WordBits THEN {}
    ELSE LET n == (IF i \in a THEN 1 ELSE 0) + (IF i \in b THEN 1 ELSE 0) + carry
         IN  (IF n % 2 = 1 THEN {i} ELSE {}) \cup AddCarry(a, b, i + 1, n \div 2)

\* a + b modulo 2^64.
U64Add(a, b) ==
    IF a = {} THEN b
    ELSE IF b = {} THEN a
    ELSE IF (\A i \in a \cup b : i <= 29) THEN NatToBits(BitsToNat(a) + BitsToNat(b))
    ELSE AddCarry(a, b, 0, 0)

(***************************************************************************)
(* The bounds-checked reader.  A read_ctx is [data, begin, end, ptr]:      *)
(* begin, end and ptr are offsets into data, the byte at offset p being    *)
(* data[p + 1].                                                            *)
(***************************************************************************)
read_ctx_init_sub(data, begin, end) ==
    [data |-> data, begin |-> begin, end |-> end, ptr |-> begin]

read_ctx_init(data) == read_ctx_init_sub(data, 0, Len(data))

read_ctx_get_offset(ctx) == ctx.ptr - ctx.begin

\* *p for a pointer p of the context.  data is the memory from the start
\* of the section on; what lies beyond it reads as zero.
Deref(ctx, p) == IF p >= 0 /\ p < Len(ctx.data) THEN ctx.data[p + 1] ELSE 0

\* Off by one: accepts a read that ends one byte past end.
need_data_past_end(ctx, length) ==
    LET ptr == ctx.ptr + length
    IN  ptr <= ctx.end + 1 /\ (length = 0 \/ ptr > ctx.ptr)

\* length is a natural below 2^31 here, so ctx->ptr + length does not wrap;
\* the second conjunct is the code's guard against a wrapped pointer.
read_ctx_need_data(ctx, length) ==
    LET ptr == ctx.ptr + length
    IN  ptr <= ctx.end /\ (length = 0 \/ ptr > ctx.ptr)

Advance(ctx, n) == [ctx EXCEPT !.ptr = @ + n]

Failed(ctx) == [ok |-> FALSE, ctx |-> ctx, ret |-> {}]

read_ctx_read_ubyte(ctx) ==
    IF ~read_ctx_need_data(ctx, 1) THEN Failed(ctx)
    ELSE [ok |-> TRUE, ctx |-> Advance(ctx, 1),
          ret |-> NatToBits(Deref(ctx, ctx.ptr))]

\* read_Nubyte_unaligned_inc of libdw on little-endian data: byte k of the
\* field holds bits 8k .. 8k+7, and the pointer moves past the field.
RECURSIVE UnalignedBits(_, _, _)
UnalignedBits(ctx, n, k) ==
    IF k >= n THEN {}
    ELSE ShiftLeft(NatToBits(Deref(ctx, ctx.ptr + k)), 8 * k)
         \cup UnalignedBits(ctx, n, k + 1)

read_unaligned_inc(ctx, n) ==
    [ok |-> TRUE, ctx |-> Advance(ctx, n), ret |-> UnalignedBits(ctx, n, 0)]

read_ctx_read_2ubyte(ctx) ==
    IF ~read_ctx_need_data(ctx, 2) THEN Failed(ctx) ELSE read_unaligned_inc(ctx, 2)

read_ctx_read_4ubyte(ctx) ==
    IF ~read_ctx_need_data(ctx, 4) THEN Failed(ctx) ELSE read_unaligned_inc(ctx, 4)

read_ctx_read_8ubyte(ctx) ==
    IF ~read_ctx_need_data(ctx, 8) THEN Failed(ctx) ELSE read_unaligned_inc(ctx, 8)

read_ctx_read_offset(ctx, dwarf64) ==
    IF dwarf64 THEN read_ctx_read_8ubyte(ctx) ELSE read_ctx_read_4ubyte(ctx)

read_ctx_read_var(ctx, width) ==
    CASE width = 4 \/ width = 8 -> read_ctx_read_offset(ctx, width = 8)
      [] width = 2 -> read_ctx_read_2ubyte(ctx)
      [] width = 1 -> read_ctx_read_ubyte(ctx)
      [] OTHER -> Failed(ctx)

\* len is a 64-bit quantity.  A section is shorter than 2^31 bytes, so for a
\* len of 2^31 or more ctx->ptr + len is past end or has wrapped: need_data
\* answers false.
read_ctx_skip(ctx, len) ==
    IF ~U64Small(len) THEN Failed(ctx)
    ELSE IF ~read_ctx_need_data(ctx, BitsToNat(len)) THEN Failed(ctx)
    ELSE [ok |-> TRUE, ctx |-> Advance(ctx, BitsToNat(len)), ret |-> {}]

read_ctx_eof(ctx) == ~read_ctx_need_data(ctx, 1)

\* A LEB128 result: st is -1, 0 or 1; ret is *ret (left alone when st = -1).
LebFailed(ctx) == [st |-> -1, ctx |-> ctx, ret |-> {}]

RECURSIVE uleb128_loop(_, _, _)
uleb128_loop(ctx, result, shift) ==
    LET rd == read_ctx_read_ubyte(ctx)
    IN  IF ~rd.ok THEN LebFailed(ctx)
        ELSE LET byte      == BitsToNat(rd.ret)
                 payload   == byte % 128
                 zero_tail == payload = 0 /\ shift > 0
                 result2   == result \cup ShiftLeft(NatToBits(payload), shift)
                 shift2    == shift + 7
             IN  IF shift2 > WordBits THEN LebFailed(rd.ctx)
                 ELSE IF byte < 128
                      THEN [st |-> IF zero_tail THEN 1 ELSE 0,
                            ctx |-> rd.ctx, ret |-> result2]
                      ELSE uleb128_loop(rd.ctx, result2, shift2)

read_ctx_read_uleb128(ctx) == uleb128_loop(ctx, {}, 0)

\* The loop of read_ctx_read_sleb128 without its check "shift > size": it
\* never gives up on a long encoding.
RECURSIVE sleb128_loop_unbounded(_, _, _, _)
sleb128_loop_unbounded(ctx, result, shift, sign) ==
    LET rd == read_ctx_read_ubyte(ctx)
    IN  IF ~rd.ok THEN LebFailed(ctx)
        ELSE LET byte    == BitsToNat(rd.ret)
                 payload == byte % 128
                 sign2   == (byte \div 64) % 2 = 1
                 result2 == result \cup ShiftLeft(NatToBits(payload), shift)
             IN  IF byte < 128
                 THEN [st |-> 0, ctx |-> rd.ctx, ret |-> result2]
                 ELSE sleb128_loop_unbounded(rd.ctx, result2, shift + 7, sign2)

read_sleb128_unbounded(ctx) == sleb128_loop_unbounded(ctx, {}, 0, FALSE)

\* Takes the sign for the test of the tail from the group itself instead
\* of from the group before it.
RECURSIVE sleb128_loop_own_sign(_, _, _, _)
sleb128_loop_own_sign(ctx, result, shift, sign) ==
    LET rd == read_ctx_read_ubyte(ctx)
    IN  IF ~rd.ok THEN LebFailed(ctx)
        ELSE LET byte      == BitsToNat(rd.ret)
                 payload   == byte % 128
                 sign2     == (byte \div 64) % 2 = 1
                 zero_tail == shift > 0 /\ ((payload = 127 /\ sign2)
                                            \/ (payload = 0 /\ ~sign2))
                 result2   == result \cup ShiftLeft(NatToBits(payload), shift)
                 shift2    == shift + 7
             IN  IF byte < 128
                 THEN [st |-> IF zero_tail THEN 1 ELSE 0,
                       ctx |-> rd.ctx,
                       ret |-> IF shift2 < WordBits /\ sign2
                               THEN result2 \cup (shift2 .. WordBits - 1)
                               ELSE result2]
                 ELSE IF shift2 > WordBits THEN LebFailed(rd.ctx)
                 ELSE sleb128_loop_own_sign(rd.ctx, result2, shift2, sign2)

\* The result is the 64-bit two's complement pattern of the int64_t.
RECURSIVE sleb128_loop(_, _, _, _)
sleb128_loop(ctx, result, shift, sign) ==
    LET rd == read_ctx_read_ubyte(ctx)
    IN  IF ~rd.ok THEN LebFailed(ctx)
        ELSE LET byte      == BitsToNat(rd.ret)
                 payload   == byte % 128
                 zero_tail == shift > 0 /\ ((payload = 127 /\ sign)
                                            \/ (payload = 0 /\ ~sign))
                 sign2     == (byte \div 64) % 2 = 1
                 result2   == result \cup ShiftLeft(NatToBits(payload), shift)
                 shift2    == shift + 7
             IN  IF byte < 128
                 THEN [st |-> IF zero_tail THEN 1 ELSE 0,
                       ctx |-> rd.ctx,
                       ret |-> IF shift2 < WordBits /\ sign2
                               THEN result2 \cup (shift2 .. WordBits - 1)
                               ELSE result2]
                 ELSE IF shift2 > WordBits THEN LebFailed(rd.ctx)
                 ELSE sleb128_loop(rd.ctx, result2, shift2, sign2)

read_ctx_read_sleb128(ctx) == sleb128_loop(ctx, {}, 0, FALSE)

(***************************************************************************)
(* The coverage set.  buf is a sequence of alloc words, word i of the code *)
(* being buf[i + 1]; a word is the set of the positions of its one bits.   *)
(***************************************************************************)
\* 8 * sizeof (uint_fast32_t), which is 64 on x86-64 glibc.
coverage_emt_bits == 64

AllOnes == 0 .. coverage_emt_bits - 1

coverage_init(size) ==
    LET ctemts == size \div coverage_emt_bits + 1
    IN  [size |-> size, alloc |-> ctemts, buf |-> [i \in 1..ctemts |-> {}]]

\* The marking of coverage_add; its two assertions are the caller's duty.
coverage_mark(ar, begin, end) ==
    LET bi == begin \div coverage_emt_bits
        ei == end \div coverage_emt_bits
        bb == begin % coverage_emt_bits
        eb == end % coverage_emt_bits
        \* (coverage_emt_type)-1 >> bb
        bm == 0 .. coverage_emt_bits - 1 - bb
        \* (coverage_emt_type)-1 << (coverage_emt_bits - 1 - eb)
        em == coverage_emt_bits - 1 - eb .. coverage_emt_bits - 1
    IN  [ar EXCEPT !.buf =
            [i \in 1..ar.alloc |->
                IF bi = ei
                THEN (IF i = bi + 1 THEN ar.buf[i] \cup (bm \cap em) ELSE ar.buf[i])
                ELSE IF i = bi + 1 THEN ar.buf[i] \cup bm
                ELSE IF i = ei + 1 THEN ar.buf[i] \cup em
                ELSE IF i > bi + 1 /\ i < ei + 1 THEN AllOnes
                ELSE ar.buf[i]]]

\* Takes end as exclusive: marks [begin, end).
coverage_add_exclusive(ar, begin, end) ==
    IF begin = end THEN ar ELSE coverage_mark(ar, begin, end - 1)

coverage_add(ar, begin, end) == coverage_mark(ar, begin, end)

\* The walk of coverage_find_holes: h is [hole, begin, out], out being the
\* calls of the callback so far.
hole_begin(h, a) == [h EXCEPT !.begin = a, !.hole = TRUE]

hole_end(h, a) ==
    [h EXCEPT !.hole = FALSE,
              !.out = IF a # h.begin THEN Append(@, <<h.begin, a - 1>>) ELSE @]

\* One round of the inner loop, for bit j of word i.  The loop's break at
\* addr > ar->size leaves every later round without effect, as addr grows.
find_holes_bit(ar, i, j, h) ==
    LET set  == (coverage_emt_bits - j) \in ar.buf[i + 1]
        addr == i * coverage_emt_bits + j - 1
    IN  IF addr > ar.size THEN h
        ELSE IF ~h.hole /\ ~set THEN hole_begin(h, addr)
        ELSE IF h.hole /\ set THEN hole_end(h, addr)
        ELSE h

\* The rounds lo .. hi of the inner loop, in order.  The range is split in
\* halves and the state after the first half is evaluated before the second
\* half starts, which keeps TLC's evaluation shallow.
RECURSIVE find_holes_bits(_, _, _, _, _)
find_holes_bits(ar, i, lo, hi, h) ==
    IF lo = hi THEN find_holes_bit(ar, i, lo, h)
    ELSE LET mid  == (lo + hi) \div 2
             left == find_holes_bits(ar, i, lo, mid, h)
         IN  IF left.hole
             THEN find_holes_bits(ar, i, mid + 1, hi, left)
             ELSE find_holes_bits(ar, i, mid + 1, hi, left)

RECURSIVE find_holes_words(_, _, _)
find_holes_words(ar, i, h) ==
    IF i >= ar.alloc THEN h
    ELSE IF ar.buf[i + 1] = AllOnes
         THEN (IF h.hole
               THEN find_holes_words(ar, i + 1, hole_end(h, i * coverage_emt_bits))
               ELSE find_holes_words(ar, i + 1, h))
         ELSE find_holes_words(ar, i + 1,
                               find_holes_bits(ar, i, 1, coverage_emt_bits, h))

coverage_find_holes(ar) ==
    LET h0 == hole_begin([hole |-> FALSE, begin |-> 0, out |-> << >>], 0)
        h  == find_holes_words(ar, 0, h0)
    IN  (IF h.hole THEN hole_end(h, ar.size) ELSE h).out

(***************************************************************************)
(* Diagnostics.  msgs is the sequence of the calls of wr_error, wr_warning *)
(* and message, in order: fn is the function, id names the format string,  *)
(* cat is the category passed to message, args the numbers printed.        *)
(***************************************************************************)
wr_error(msgs, id, args) ==
    Append(msgs, [fn |-> "wr_error", id |-> id, cat |-> {}, args |-> args])

wr_warning(msgs, id, args) ==
    Append(msgs, [fn |-> "wr_warning", id |-> id, cat |-> {}, args |-> args])

message(msgs, cat, id, args) ==
    Append(msgs, [fn |-> "message", id |-> id, cat |-> cat, args |-> args])

message_padding_0(msgs, cat, start, end) ==
    message(msgs, cat \cup {"acc_bloat", "impact_1"},
            "unnecessary padding with zero bytes", <<start, end>>)

message_padding_n0(msgs, cat, start, end) ==
    message(msgs, cat \cup {"acc_bloat", "impact_2"},
            "unreferenced non-zero bytes", <<start, end>>)

\* format_leb128_message on the result r of a LEB128 read: what the
\* checked read returns.
format_leb128_message(r, msgs, what) ==
    [ok   |-> r.st >= 0,
     ctx  |-> r.ctx,
     ret  |-> r.ret,
     msgs |-> IF r.st < 0 THEN wr_error(msgs, "can't read", <<what>>)
              ELSE IF r.st > 0
              THEN message(msgs, {"leb128", "acc_bloat", "impact_3"},
                           "unnecessarily long encoding", <<what>>)
              ELSE msgs]

checked_read_uleb128(ctx, msgs, what) ==
    format_leb128_message(read_ctx_read_uleb128(ctx), msgs, what)

checked_read_sleb128(ctx, msgs, what) ==
    format_leb128_message(read_ctx_read_sleb128(ctx), msgs, what)

(***************************************************************************)
(* The filter and the printing of the diagnostics.  A category is the set  *)
(* of the names of its bits.  A stream o is [text, error_count]: text is   *)
(* the sequence of the lines printed, each <<prefix, id>>, error_count the *)
(* global counter.                                                         *)
(***************************************************************************)
\* The area bits that the program names, all within mc_all (0xffff00).
mc_all ==
    {"leb128", "abbrevs", "die_rel_sib", "die_rel_child", "die_rel_ref", "die_other",
     "strings", "aranges", "elf", "pubnames", "other"}

\* The initial values of the two criteria.
warning_criteria == [accept |-> mc_all \ {"strings"}, reject |-> {}]

error_criteria == [accept |-> {"impact_4", "error"}, reject |-> {}]

accept_message(crit, cat) ==
    crit.accept \cap cat # {} /\ crit.reject \cap cat = {}

verror(o, id) ==
    [text |-> Append(o.text, <<"error: ", id>>), error_count |-> o.error_count + 1]

vwarning(o, id) ==
    [text |-> Append(o.text, <<"warning: ", id>>), error_count |-> o.error_count + 1]

\* wcrit is warning_criteria as the options left it.
vmessage(o, wcrit, category, id) ==
    IF accept_message(wcrit, category)
    THEN IF accept_message(error_criteria, category) THEN verror(o, id)
         ELSE vwarning(o, id)
    ELSE o

\* parse_opt on warning_criteria for the keys that change it.
parse_opt(wcrit, key) ==
    CASE key = "strict" -> [wcrit EXCEPT !.accept = @ \cup {"strings"}]
      [] key = "gnu"    -> [wcrit EXCEPT !.reject = @ \cup {"acc_bloat"}]
      [] key = "i"      -> [wcrit EXCEPT !.reject = @ \cup {"elf"}]
      [] OTHER          -> wcrit

\* What the call m on record in msgs prints.
print_call(o, wcrit, m) ==
    CASE m.fn = "wr_error"   -> verror(o, m.id)
      [] m.fn = "wr_warning" -> vwarning(o, m.id)
      [] OTHER               -> vmessage(o, wcrit, m.cat, m.id)

(***************************************************************************)
(* DWARF constants (libdw/dwarf.h), at the places dwarflint.c uses them.   *)
(***************************************************************************)
DW_TAG_hi_user    == 65535
DW_AT_hi_user     == 16383
DW_AT_sibling     == 1
DW_CHILDREN_no    == 0
DW_CHILDREN_yes   == 1
DW_FORM_addr      == 1
DW_FORM_block2    == 3
DW_FORM_block4    == 4
DW_FORM_data2     == 5
DW_FORM_data4     == 6
DW_FORM_data8     == 7
DW_FORM_string    == 8
DW_FORM_block     == 9
DW_FORM_block1    == 10
DW_FORM_data1     == 11
DW_FORM_flag      == 12
DW_FORM_sdata     == 13
DW_FORM_strp      == 14
DW_FORM_udata     == 15
DW_FORM_ref_addr  == 16
DW_FORM_ref1      == 17
DW_FORM_ref2      == 18
DW_FORM_ref4      == 19
DW_FORM_ref8      == 20
DW_FORM_ref_udata == 21
DW_FORM_indirect  == 22

\* form is a 64-bit quantity.
attrib_form_valid(form) ==
    form # {} /\ U64Le(form, NatToBits(DW_FORM_indirect))

check_sibling_form(form) ==
    IF form \in { NatToBits(f) : f \in {DW_FORM_indirect, DW_FORM_ref1, DW_FORM_ref2,
                                        DW_FORM_ref4, DW_FORM_ref8, DW_FORM_ref_udata} }
    THEN 0
    ELSE IF form = NatToBits(DW_FORM_ref_addr) THEN -1
    ELSE -2

(***************************************************************************)
(* The abbreviation loader.  A table is [offset, abbr]; an abbrev is       *)
(* [code, tag, has_children, used, attribs]; an attribute is [offset,      *)
(* name, form].  The chain is a sequence of tables, its head first.        *)
(***************************************************************************)
\* a - b modulo 2^64.
U64Sub(a, b) == AddCarry(a, (0 .. WordBits - 1) \ b, 0, 1)

\* aa->code - bb->code, a uint64_t, returned as an int: the low 32 bits of
\* the difference, bit 31 being the sign.  The result here is its sign.
cmp_abbrs(aa, bb) ==
    LET d == U64Sub(aa.code, bb.code) \cap (0..31)
    IN  IF d = {} THEN 0 ELSE IF 31 \in d THEN -1 ELSE 1

\* qsort with cmp_abbrs, as an insertion sort: x goes before the first
\* element that compares greater.  For a comparator that is a total order
\* every sorting algorithm gives this order, up to equal elements.
RECURSIVE sort_insert(_, _)
sort_insert(sorted, x) ==
    IF sorted = << >> THEN <<x>>
    ELSE IF cmp_abbrs(x, Head(sorted)) < 0 THEN <<x>> \o sorted
    ELSE <<Head(sorted)>> \o sort_insert(Tail(sorted), x)

RECURSIVE qsort_abbrs(_)
qsort_abbrs(abbr) ==
    IF abbr = << >> THEN << >>
    ELSE sort_insert(qsort_abbrs(SubSeq(abbr, 1, Len(abbr) - 1)), abbr[Len(abbr)])

sort_table(abbr) == qsort_abbrs(abbr)

\* The do-while loop over the attribute pairs of one abbrev, in three
\* steps: the name is read, the form is read, the pair is checked and stored.
RECURSIVE load_attribs(_, _, _, _)
RECURSIVE load_attrib_form(_, _, _, _)
RECURSIVE load_attrib_store(_, _, _, _, _)
load_attrib_store(attr_off, cur, sibling_attr, attrib_name, rf) ==
    IF ~rf.ok THEN [ok |-> FALSE, ctx |-> rf.ctx, msgs |-> rf.msgs, cur |-> cur]
    ELSE
    LET attrib_form == rf.ret
        null_attrib == attrib_name = {} /\ attrib_form = {}
    IN  IF ~null_attrib /\ U64Lt(NatToBits(DW_AT_hi_user), attrib_name)
        THEN [ok |-> FALSE, ctx |-> rf.ctx, cur |-> cur,
              msgs |-> wr_error(rf.msgs, "invalid name", <<attr_off>>)]
        ELSE IF ~null_attrib /\ ~attrib_form_valid(attrib_form)
        THEN [ok |-> FALSE, ctx |-> rf.ctx, cur |-> cur,
              msgs |-> wr_error(rf.msgs, "invalid form", <<attr_off>>)]
        ELSE
        LET is_sib == attrib_name = NatToBits(DW_AT_sibling)
            m1 == IF is_sib /\ sibling_attr # 0
                  THEN wr_error(rf.msgs, "Another DW_AT_sibling attribute",
                                <<attr_off>>)
                  ELSE IF is_sib /\ ~cur.has_children
                  THEN message(rf.msgs, {"die_rel_sib", "acc_bloat", "impact_1"},
                               "Excessive DW_AT_sibling attribute", <<attr_off>>)
                  ELSE rf.msgs
            sib2 == IF is_sib /\ sibling_attr = 0 THEN attr_off ELSE sibling_attr
            csf == check_sibling_form(attrib_form)
            m2 == IF is_sib /\ csf = -1
                  THEN message(m1, {"die_rel_sib", "impact_2"},
                               "DW_AT_sibling attribute with form DW_FORM_ref_addr",
                               <<attr_off>>)
                  ELSE IF is_sib /\ csf = -2
                  THEN wr_error(m1, "DW_AT_sibling attribute with non-reference form",
                                <<attr_off>>)
                  ELSE m1
            \* a valid name fits uint16_t and a valid form uint8_t
            acur == [name |-> BitsToNat(attrib_name),
                     form |-> BitsToNat(attrib_form),
                     offset |-> attr_off]
            cur2 == [cur EXCEPT !.attribs = Append(@, acur)]
        IN  IF null_attrib
            THEN [ok |-> TRUE, ctx |-> rf.ctx, msgs |-> m2, cur |-> cur2]
            ELSE load_attribs(rf.ctx, m2, cur2, sib2)

load_attrib_form(attr_off, cur, sibling_attr, rn) ==
    IF ~rn.ok THEN [ok |-> FALSE, ctx |-> rn.ctx, msgs |-> rn.msgs, cur |-> cur]
    ELSE load_attrib_store(attr_off, cur, sibling_attr, rn.ret,
                           checked_read_uleb128(rn.ctx, rn.msgs, "attribute form"))

load_attribs(ctx, msgs, cur, sibling_attr) ==
    load_attrib_form(read_ctx_get_offset(ctx), cur, sibling_attr,
                     checked_read_uleb128(ctx, msgs, "attribute name"))

\* The inner loop of abbrev_table_load: reads abbreviation codes up to the
\* first that is not zero or to the end of the section.  A zero code closes
\* the table (open is section != NULL); -1 stands for (uint64_t)-1 in
\* offsets, the set of all bits for it in codes.  abbrev_code_read is the
\* body of the loop after the code has been read (r, at offset off).
RECURSIVE abbrev_code_loop(_, _, _, _, _, _, _, _)
RECURSIVE abbrev_code_read(_, _, _, _, _, _)
abbrev_code_read(open, off, prev_abbr_off, prev_abbr_code, zero_seq_off, r) ==
    LET zs == IF r.ret = {} /\ prev_abbr_code = {} /\ zero_seq_off = -1
              THEN prev_abbr_off ELSE zero_seq_off
    IN  IF ~r.ok
        THEN [ok |-> FALSE, ctx |-> r.ctx, msgs |-> r.msgs, open |-> open,
              abbr_off |-> off, abbr_code |-> r.ret,
              prev_abbr_off |-> prev_abbr_off, zero_seq_off |-> zero_seq_off]
        ELSE IF r.ret # {}
        THEN [ok |-> TRUE, ctx |-> r.ctx, msgs |-> r.msgs, open |-> open,
              abbr_off |-> off, abbr_code |-> r.ret,
              prev_abbr_off |-> prev_abbr_off, zero_seq_off |-> zs]
        ELSE abbrev_code_loop(r.ctx, r.msgs, FALSE, off, r.ret, off, r.ret, zs)

abbrev_code_loop(ctx, msgs, open, abbr_off, abbr_code, prev_abbr_off, prev_abbr_code, zero_seq_off) ==
    IF read_ctx_eof(ctx)
    THEN [ok |-> TRUE, ctx |-> ctx, msgs |-> msgs, open |-> open,
          abbr_off |-> abbr_off, abbr_code |-> abbr_code,
          prev_abbr_off |-> prev_abbr_off, zero_seq_off |-> zero_seq_off]
    ELSE abbrev_code_read(open, read_ctx_get_offset(ctx), prev_abbr_off, prev_abbr_code,
                          zero_seq_off, checked_read_uleb128(ctx, msgs, "abbrev code"))

\* goto free_and_out: the chain is freed and NULL (the empty chain) returned.
free_and_out(ctx, msgs) ==
    [ok |-> FALSE, ctx |-> ctx, msgs |-> msgs, chain |-> << >>, last_code |-> {}]

\* One abbreviation after its code, appended to the table at the head of
\* the chain: the tag (rt is its read), has_children (rc is its read) and
\* the attributes (ra is what their loop gave).
load_abbrev_store(chain, ra) ==
    IF ~ra.ok THEN free_and_out(ra.ctx, ra.msgs)
    ELSE [ok |-> TRUE, ctx |-> ra.ctx, msgs |-> ra.msgs,
          chain |-> [chain EXCEPT ![1].abbr = Append(@, ra.cur)]]

load_abbrev_attribs(chain, abbr_off, abbr_code, abbr_tag, msgs, rc) ==
    IF ~rc.ok
    THEN free_and_out(rc.ctx, wr_error(msgs, "can't read abbrev has_children",
                                       <<abbr_off>>))
    ELSE IF rc.ret \notin {NatToBits(DW_CHILDREN_no), NatToBits(DW_CHILDREN_yes)}
    THEN free_and_out(rc.ctx, wr_error(msgs, "invalid has_children value",
                                       <<abbr_off>>))
    ELSE load_abbrev_store(chain,
            load_attribs(rc.ctx, msgs,
                         [code |-> abbr_code, tag |-> BitsToNat(abbr_tag),
                          has_children |-> rc.ret = NatToBits(DW_CHILDREN_yes),
                          used |-> FALSE, attribs |-> << >>],
                         0))

load_abbrev_children(chain, abbr_off, abbr_code, rt) ==
    IF ~rt.ok THEN free_and_out(rt.ctx, rt.msgs)
    ELSE IF U64Lt(NatToBits(DW_TAG_hi_user), rt.ret)
    THEN free_and_out(rt.ctx, wr_error(rt.msgs, "invalid abbrev tag", <<abbr_off>>))
    ELSE load_abbrev_attribs(chain, abbr_off, abbr_code, rt.ret, rt.msgs,
                             read_ctx_read_ubyte(rt.ctx))

load_abbrev(ctx, msgs, chain, abbr_off, abbr_code) ==
    load_abbrev_children(chain, abbr_off, abbr_code,
                         checked_read_uleb128(ctx, msgs, "abbrev tag"))

\* The outer loop of abbrev_table_load: c is what the inner loop gave, a
\* what the loading of the abbreviation gave.
RECURSIVE abbrev_table_loop(_, _, _, _)
RECURSIVE abbrev_table_next(_)
RECURSIVE abbrev_table_body(_, _)
abbrev_table_next(a) ==
    IF ~a.ok THEN a ELSE abbrev_table_loop(a.ctx, a.msgs, a.chain, TRUE)

\* Links a new table at the tail of the chain instead of at its head.
abbrev_table_body_tail(chain, c) ==
    LET m1 == IF c.zero_seq_off # -1
              THEN message_padding_0(c.msgs, {"abbrevs"}, c.zero_seq_off,
                                     c.prev_abbr_off - 1)
              ELSE c.msgs
    IN  IF ~c.ok THEN free_and_out(c.ctx, c.msgs)
        ELSE IF read_ctx_eof(c.ctx)
        THEN [ok |-> TRUE, ctx |-> c.ctx, msgs |-> m1, chain |-> chain,
              last_code |-> c.abbr_code]
        ELSE abbrev_table_next(
                load_abbrev(c.ctx, m1,
                            IF ~c.open
                            THEN chain \o <<[offset |-> c.abbr_off, abbr |-> << >>]>>
                            ELSE chain,
                            c.abbr_off, c.abbr_code))

abbrev_table_body(chain, c) ==
    LET m1 == IF c.zero_seq_off # -1
              THEN message_padding_0(c.msgs, {"abbrevs"}, c.zero_seq_off,
                                     c.prev_abbr_off - 1)
              ELSE c.msgs
    IN  IF ~c.ok THEN free_and_out(c.ctx, c.msgs)
        ELSE IF read_ctx_eof(c.ctx)
        THEN [ok |-> TRUE, ctx |-> c.ctx, msgs |-> m1, chain |-> chain,
              last_code |-> c.abbr_code]
        ELSE abbrev_table_next(
                load_abbrev(c.ctx, m1,
                            IF ~c.open
                            THEN <<[offset |-> c.abbr_off, abbr |-> << >>]>> \o chain
                            ELSE chain,
                            c.abbr_off, c.abbr_code))

abbrev_table_loop(ctx, msgs, chain, open) ==
    IF read_ctx_eof(ctx)
    THEN [ok |-> TRUE, ctx |-> ctx, msgs |-> msgs, chain |-> chain, last_code |-> {}]
    ELSE abbrev_table_body(chain,
            abbrev_code_loop(ctx, msgs, open, 0, {}, -1, 0 .. WordBits - 1, -1))

\* The tables of the chain r, each sorted.
sort_tables(r) ==
    [ok |-> r.ok, msgs |-> r.msgs, last_code |-> r.last_code,
     chain |-> [k \in 1..Len(r.chain) |-> [r.chain[k] EXCEPT !.abbr = sort_table(@)]]]

\* The chain abbrev_table_load returns (the empty chain is NULL), with the
\* diagnostics it gave.  ok is false when it left by free_and_out; last_code
\* is abbr_code as it was when the outer loop was left by its break.
abbrev_table_load(ctx) ==
    sort_tables(abbrev_table_loop(ctx, << >>, << >>, FALSE))

\* The binary search over the array of one table: the index of the abbrev
\* found, 0 for NULL.
RECURSIVE find_abbrev_loop(_, _, _, _)
find_abbrev_loop(abbr, abbrev_code, a, b) ==
    IF a >= b THEN 0
    ELSE LET i == (a + b) \div 2
         IN  IF U64Lt(abbrev_code, abbr[i + 1].code)
             THEN find_abbrev_loop(abbr, abbrev_code, a, i)
             ELSE IF U64Lt(abbr[i + 1].code, abbrev_code)
             THEN find_abbrev_loop(abbr, abbrev_code, i + 1, b)
             ELSE i + 1

abbrev_table_find_abbrev(abbrevs, abbrev_code) ==
    find_abbrev_loop(abbrevs.abbr, abbrev_code, 0, Len(abbrevs.abbr))

(***************************************************************************)
(* The record of DIE addresses (a sorted array without repetitions) and    *)
(* the record of references (an array in the order of recording).          *)
(* Addresses are 64-bit quantities.                                        *)
(***************************************************************************)
RECURSIVE find_addr_loop(_, _, _, _)
find_addr_loop(ar, addr, a, b) ==
    IF a >= b THEN a
    ELSE LET i == (a + b) \div 2
             v == ar[i + 1]
         IN  IF U64Lt(addr, v) THEN find_addr_loop(ar, addr, a, i)
             ELSE IF U64Lt(v, addr) THEN find_addr_loop(ar, addr, i + 1, b)
             ELSE i

\* The index (from 0) of addr in the array, or of the place to insert it.
addr_record_find_addr(ar, addr) == find_addr_loop(ar, addr, 0, Len(ar))

\* Answers true for every address between the first and the last recorded.
has_addr_in_range(ar, addr) ==
    ~ (Len(ar) = 0 \/ U64Lt(addr, ar[1]) \/ U64Lt(ar[Len(ar)], addr))

addr_record_has_addr(ar, addr) ==
    IF Len(ar) = 0 \/ U64Lt(addr, ar[1]) \/ U64Lt(ar[Len(ar)], addr) THEN FALSE
    ELSE LET a == addr_record_find_addr(ar, addr)
         IN  a < Len(ar) /\ ar[a + 1] = addr

\* Inserts the address even when the array holds it already.
addr_record_add_always(ar, addr) ==
    LET a == addr_record_find_addr(ar, addr)
    IN  SubSeq(ar, 1, a) \o <<addr>> \o SubSeq(ar, a + 1, Len(ar))

addr_record_add(ar, addr) ==
    LET a == addr_record_find_addr(ar, addr)
    IN  IF a >= Len(ar) \/ ar[a + 1] # addr
        THEN SubSeq(ar, 1, a) \o <<addr>> \o SubSeq(ar, a + 1, Len(ar))
        ELSE ar

ref_record_add(rr, addr, who) == Append(rr, [addr |-> addr, who |-> who])

(***************************************************************************)
(* The DIE walker.  Its state w is [ctx, msgs, chain, die_addrs, die_refs, *)
(* die_loc_refs, strcov, hist]: the reader of the CU, the diagnostics, the *)
(* abbreviation chain (for the used flags), cu->die_addrs, cu->die_refs,   *)
(* the local references of the CU, the coverage of .debug_str (or NULL)    *)
(* and a history of what the walker met.  env is what a walk does not      *)
(* change: [cu_offset, abbrevs, strings, dwarf_64, addr_64], abbrevs being *)
(* the index of the CU's table in the chain.                               *)
(***************************************************************************)
NULL == [present |-> FALSE]

\* strlen of the string at addr of .debug_str.  Where the section lacks the
\* terminating zero, strlen runs into what follows the section in memory:
\* strings.tail is the number of nonzero bytes found there.
strlen(strings, addr) ==
    LET zeros == { i \in addr .. Len(strings.data) - 1 : strings.data[i + 1] = 0 }
    IN  IF zeros # {} THEN (CHOOSE i \in zeros : \A j \in zeros : i <= j) - addr
        ELSE Len(strings.data) - addr + strings.tail

\* record_ref of read_die_chain.  who is die_off.  Neither record is NULL
\* at the one call of read_die_chain's top level (check_cu_structural).
record_ref(w, env, addr, who, local, abbrev, it) ==
    IF local /\ U64Lt(NatToBits(w.ctx.end - w.ctx.begin), addr)
    THEN [w EXCEPT !.msgs = wr_error(@, "invalid reference outside the CU",
                                     <<env.cu_offset, who, it.offset, addr>>)]
    ELSE IF local
    THEN [w EXCEPT !.die_loc_refs =
                      ref_record_add(@, U64Add(addr, NatToBits(env.cu_offset)), who)]
    ELSE [w EXCEPT !.die_refs = ref_record_add(@, addr, who)]

\* record_ref, with the call entered in the history.
record_ref_hist(w, env, addr, who, local, abbrev, it, form) ==
    LET w2 == record_ref(w, env, addr, who, local, abbrev, it)
    IN  [w2 EXCEPT !.hist = Append(@,
            [ev |-> "ref", local |-> local, form |-> form, value |-> addr,
             who |-> who, cu_offset |-> env.cu_offset,
             len |-> w.ctx.end - w.ctx.begin,
             recorded |-> IF local THEN w2.die_loc_refs # w.die_loc_refs
                          ELSE w2.die_refs # w.die_refs,
             error |-> w2.msgs # w.msgs])]

\* struct abbrev *abbrev, *prev_abbrev = NULL; nothing in read_die_chain
\* assigns to prev_abbrev after that.
prev_abbrev == NULL

HadChildren == "This DIE had children, but no DW_AT_sibling attribute"

\* Compares with the offset of the previous DIE instead of this one.
sibling_check_prev(msgs, cu_offset, sibling_addr, abbr_code, die_off, prev_die_off) ==
    IF sibling_addr = {}
    THEN IF prev_abbrev # NULL /\ prev_abbrev.has_children
         THEN message(msgs, {"die_rel_sib", "acc_suboptimal", "impact_4"}, HadChildren,
                      <<cu_offset, prev_die_off>>)
         ELSE msgs
    ELSE IF abbr_code = {}
    THEN wr_error(msgs, "is the last sibling in chain, but has a DW_AT_sibling attribute",
                  <<cu_offset, prev_die_off>>)
    ELSE IF sibling_addr # NatToBits(prev_die_off)
    THEN wr_error(msgs, "This DIE should have had its sibling at",
                  <<cu_offset, prev_die_off, sibling_addr, die_off>>)
    ELSE msgs

\* The check of the sibling value advertised last time through the loop,
\* and, when there was none, the test of prev_abbrev.
sibling_check(msgs, cu_offset, sibling_addr, abbr_code, die_off, prev_die_off) ==
    IF sibling_addr = {}
    THEN IF prev_abbrev # NULL /\ prev_abbrev.has_children
         THEN message(msgs, {"die_rel_sib", "acc_suboptimal", "impact_4"}, HadChildren,
                      <<cu_offset, prev_die_off>>)
         ELSE msgs
    ELSE IF abbr_code = {}
    THEN wr_error(msgs, "is the last sibling in chain, but has a DW_AT_sibling attribute",
                  <<cu_offset, prev_die_off>>)
    ELSE IF sibling_addr # NatToBits(die_off)
    THEN wr_error(msgs, "This DIE should have had its sibling at",
                  <<cu_offset, prev_die_off, sibling_addr, die_off>>)
    ELSE msgs

\* What the decoding of one attribute gives: ok is false for return -1;
\* val is the value read, for the history.
AttrResult(ok, w, sibling_addr, val) ==
    [ok |-> ok, w |-> w, sibling_addr |-> sibling_addr, val |-> val]

\* The label cant_read.
cant_read(w, ctx, env, die_off, it, sibling_addr) ==
    AttrResult(FALSE,
               [w EXCEPT !.ctx = ctx,
                         !.msgs = wr_error(@, "can't read attribute value",
                                           <<env.cu_offset, die_off, it.offset>>)],
               sibling_addr, {})

\* The common part of the cases of the fixed-size and LEB128 values: r is
\* the result of the read and msgs the diagnostics after it, ref_form the
\* reference form of the case.
value_case(w, env, abbrev, it, die_off, sibling_addr, r, msgs, ref_form) ==
    LET w1 == [w EXCEPT !.ctx = r.ctx, !.msgs = msgs]
    IN  IF it.name = DW_AT_sibling THEN AttrResult(TRUE, w1, r.ret, r.ret)
        ELSE IF it.form = ref_form
        THEN AttrResult(TRUE,
                        record_ref_hist(w1, env, r.ret, die_off, TRUE, abbrev, it, ref_form),
                        sibling_addr, r.ret)
        ELSE AttrResult(TRUE, w1, sibling_addr, r.ret)

fixed_case(w, env, abbrev, it, die_off, sibling_addr, r, ref_form) ==
    IF ~r.ok THEN cant_read(w, r.ctx, env, die_off, it, sibling_addr)
    ELSE value_case(w, env, abbrev, it, die_off, sibling_addr, r, w.msgs, ref_form)

\* do read_ctx_read_ubyte while (byte != 0)
RECURSIVE string_case(_, _, _, _, _, _)
string_case(w, ctx, env, die_off, it, sibling_addr) ==
    LET r == read_ctx_read_ubyte(ctx)
    IN  IF ~r.ok THEN cant_read(w, r.ctx, env, die_off, it, sibling_addr)
        ELSE IF r.ret # {} THEN string_case(w, r.ctx, env, die_off, it, sibling_addr)
        ELSE AttrResult(TRUE, [w EXCEPT !.ctx = r.ctx], sibling_addr, {})

\* The used part of .debug_str is recorded: end is addr + strlen (strp).
\* The call is entered in the history; where the second assertion of
\* coverage_add (end <= ar->size) fails, the program ends there.
strp_covered(w1, sibling_addr, val, addr, end) ==
    LET w2 == [w1 EXCEPT !.hist = Append(@,
                  [ev |-> "strp", addr |-> addr, end |-> end,
                   covered |-> w1.strcov.present,
                   assert_failed |-> w1.strcov.present /\ end > w1.strcov.ar.size])]
    IN  IF ~w1.strcov.present THEN AttrResult(TRUE, w2, sibling_addr, val)
        ELSE IF end > w1.strcov.ar.size THEN AttrResult(FALSE, w2, sibling_addr, val)
        ELSE AttrResult(TRUE, [w2 EXCEPT !.strcov.ar = coverage_add(@, addr, end)],
                        sibling_addr, val)

strp_case(w, env, die_off, it, sibling_addr) ==
    LET r == read_ctx_read_offset(w.ctx, env.dwarf_64)
        args == <<env.cu_offset, die_off, it.offset>>
        w1 == [w EXCEPT !.ctx = r.ctx]
    IN  IF ~r.ok THEN cant_read(w, r.ctx, env, die_off, it, sibling_addr)
        ELSE IF ~env.strings.present
        THEN AttrResult(TRUE,
                        [w1 EXCEPT !.msgs = wr_error(@, "strp attribute, but no .debug_str section", args)],
                        sibling_addr, r.ret)
        ELSE IF ~U64Lt(r.ret, NatToBits(Len(env.strings.data)))
        THEN AttrResult(TRUE,
                        [w1 EXCEPT !.msgs = wr_error(@, "Invalid offset outside .debug_str", args)],
                        sibling_addr, r.ret)
        ELSE strp_covered(w1, sibling_addr, r.ret, BitsToNat(r.ret),
                          BitsToNat(r.ret) + strlen(env.strings, BitsToNat(r.ret)))

block_case(w, env, die_off, it, sibling_addr, width) ==
    LET rl == IF width = 0 THEN checked_read_uleb128(w.ctx, w.msgs, "attribute value")
              ELSE read_ctx_read_var(w.ctx, width)
    IN  IF width = 0 /\ ~rl.ok
        THEN AttrResult(FALSE, [w EXCEPT !.ctx = rl.ctx, !.msgs = rl.msgs], sibling_addr, {})
        ELSE IF ~rl.ok THEN cant_read(w, rl.ctx, env, die_off, it, sibling_addr)
        ELSE LET w1 == IF width = 0 THEN [w EXCEPT !.msgs = rl.msgs] ELSE w
                 rs == read_ctx_skip(rl.ctx, rl.ret)
             IN  IF ~rs.ok THEN cant_read(w1, rs.ctx, env, die_off, it, sibling_addr)
                 ELSE AttrResult(TRUE, [w1 EXCEPT !.ctx = rs.ctx], sibling_addr, rl.ret)

\* The switch on the form; form is the form after DW_FORM_indirect has
\* been resolved, it.form the form of the abbreviation.
decode_form(w, env, abbrev, it, form, die_off, sibling_addr) ==
    CASE form = DW_FORM_strp -> strp_case(w, env, die_off, it, sibling_addr)
      [] form = DW_FORM_string -> string_case(w, w.ctx, env, die_off, it, sibling_addr)
      [] form \in {DW_FORM_addr, DW_FORM_ref_addr} ->
            LET r == read_ctx_read_offset(w.ctx, env.addr_64)
                w1 == [w EXCEPT !.ctx = r.ctx]
            IN  IF ~r.ok THEN cant_read(w, r.ctx, env, die_off, it, sibling_addr)
                ELSE IF it.form = DW_FORM_ref_addr
                THEN AttrResult(TRUE,
                                record_ref_hist(w1, env, r.ret, die_off, FALSE, abbrev, it,
                                                DW_FORM_ref_addr),
                                sibling_addr, r.ret)
                ELSE AttrResult(TRUE, w1, sibling_addr, r.ret)
      [] form \in {DW_FORM_udata, DW_FORM_ref_udata} ->
            LET r == checked_read_uleb128(w.ctx, w.msgs, "attribute value")
            IN  IF ~r.ok
                THEN AttrResult(FALSE, [w EXCEPT !.ctx = r.ctx, !.msgs = r.msgs],
                                sibling_addr, {})
                ELSE value_case(w, env, abbrev, it, die_off, sibling_addr, r, r.msgs,
                                DW_FORM_ref_udata)
      [] form \in {DW_FORM_flag, DW_FORM_data1, DW_FORM_ref1} ->
            fixed_case(w, env, abbrev, it, die_off, sibling_addr,
                       read_ctx_read_ubyte(w.ctx), DW_FORM_ref1)
      [] form \in {DW_FORM_data2, DW_FORM_ref2} ->
            fixed_case(w, env, abbrev, it, die_off, sibling_addr,
                       read_ctx_read_2ubyte(w.ctx), DW_FORM_ref2)
      [] form \in {DW_FORM_data4, DW_FORM_ref4} ->
            fixed_case(w, env, abbrev, it, die_off, sibling_addr,
                       read_ctx_read_4ubyte(w.ctx), DW_FORM_ref4)
      [] form \in {DW_FORM_data8, DW_FORM_ref8} ->
            fixed_case(w, env, abbrev, it, die_off, sibling_addr,
                       read_ctx_read_8ubyte(w.ctx), DW_FORM_ref8)
      [] form = DW_FORM_sdata ->
            LET r == checked_read_sleb128(w.ctx, w.msgs, "attribute value")
            IN  AttrResult(r.ok, [w EXCEPT !.ctx = r.ctx, !.msgs = r.msgs],
                           sibling_addr, r.ret)
      [] form = DW_FORM_block  -> block_case(w, env, die_off, it, sibling_addr, 0)
      [] form = DW_FORM_block1 -> block_case(w, env, die_off, it, sibling_addr, 1)
      [] form = DW_FORM_block2 -> block_case(w, env, die_off, it, sibling_addr, 2)
      [] form = DW_FORM_block4 -> block_case(w, env, die_off, it, sibling_addr, 4)
      [] form = DW_FORM_indirect ->
            AttrResult(FALSE,
                       [w EXCEPT !.msgs = wr_error(@, "Indirect form is again indirect",
                                                   <<env.cu_offset, die_off, it.offset>>)],
                       sibling_addr, {})
      [] OTHER ->
            AttrResult(TRUE,
                       [w EXCEPT !.msgs = wr_error(@, "Internal error: unhandled form",
                                                   <<env.cu_offset, die_off, it.offset>>)],
                       sibling_addr, {})

\* One attribute: DW_FORM_indirect is resolved first (r is the read of
\* the form), then the value is read.
indirect_form(w, env, abbrev, it, die_off, sibling_addr, r) ==
    LET w1 == [w EXCEPT !.ctx = r.ctx, !.msgs = r.msgs]
        args == <<env.cu_offset, die_off, it.offset>>
        csf == check_sibling_form(r.ret)
    IN  IF ~r.ok THEN AttrResult(FALSE, w1, sibling_addr, {})
        ELSE IF ~attrib_form_valid(r.ret)
        THEN AttrResult(FALSE,
                        [w1 EXCEPT !.msgs = wr_error(@, "invalid indirect form", args)],
                        sibling_addr, {})
        ELSE decode_form(
               IF it.name = DW_AT_sibling /\ csf = -1
               THEN [w1 EXCEPT !.msgs = message(@, {"die_rel_sib", "impact_2"},
                        "DW_AT_sibling attribute with (indirect) form DW_FORM_ref_addr",
                        args)]
               ELSE IF it.name = DW_AT_sibling /\ csf = -2
               THEN [w1 EXCEPT !.msgs = wr_error(@,
                        "DW_AT_sibling attribute with non-reference (indirect) form",
                        args)]
               ELSE w1,
               env, abbrev, it, BitsToNat(r.ret), die_off, sibling_addr)

read_attrib(w, env, abbrev, it, die_off, sibling_addr) ==
    IF it.form # DW_FORM_indirect
    THEN decode_form(w, env, abbrev, it, it.form, die_off, sibling_addr)
    ELSE indirect_form(w, env, abbrev, it, die_off, sibling_addr,
                       checked_read_uleb128(w.ctx, w.msgs, "indirect attribute form"))

\* The loop over the attributes of the abbreviation: it stops at the first
\* attribute whose name is 0.  r is what the decoding of attribute k gave;
\* sibs collects, for the history, the values of the attributes named
\* DW_AT_sibling; values is the number of values decoded.
RECURSIVE read_attribs(_, _, _, _, _, _, _)
RECURSIVE read_attribs_next(_, _, _, _, _, _)
read_attribs_next(env, abbrev, k, die_off, sibs, r) ==
    IF ~r.ok
    THEN [ok |-> FALSE, w |-> r.w, sibling_addr |-> r.sibling_addr, sibs |-> sibs,
          values |-> k - 1]
    ELSE read_attribs(r.w, env, abbrev, k + 1, die_off, r.sibling_addr,
                      IF abbrev.attribs[k].name = DW_AT_sibling
                      THEN Append(sibs, [form |-> abbrev.attribs[k].form, value |-> r.val])
                      ELSE sibs)

read_attribs(w, env, abbrev, k, die_off, sibling_addr, sibs) ==
    IF abbrev.attribs[k].name = 0
    THEN [ok |-> TRUE, w |-> w, sibling_addr |-> sibling_addr, sibs |-> sibs,
          values |-> k - 1]
    ELSE read_attribs_next(env, abbrev, k, die_off, sibs,
                           read_attrib(w, env, abbrev, abbrev.attribs[k], die_off,
                                       sibling_addr))

\* read_die_chain: st is -1 for an error, 0 for a chain of only the
\* terminating DIE, 1 when DIEs were loaded.  begin identifies the chain in
\* the history.  last_die_off is the offset of the last DIE of the chain
\* read (die_off is not read before it has been assigned).  The body of the
\* loop is in steps: die_code after the abbreviation code has been read (r),
\* die_attribs after the attributes have been read (ra), die_children after
\* the chain of the children has been read (rc).
RECURSIVE die_chain_loop(_, _, _, _, _, _)
RECURSIVE read_die_chain(_, _)
RECURSIVE die_code(_, _, _, _, _, _, _, _)
RECURSIVE die_attribs(_, _, _, _, _, _)
RECURSIVE die_children(_, _, _, _, _)
die_children(env, begin, die_off, sibling_addr, rc) ==
    IF rc.st = -1 THEN rc
    ELSE die_chain_loop(
           IF rc.st = 0
           THEN [rc.w EXCEPT !.msgs = message(@,
                   {"impact_3", "acc_suboptimal", "die_rel_child"},
                   "Abbrev has_children, but the chain was empty",
                   <<env.cu_offset, die_off>>)]
           ELSE rc.w,
           env, begin, TRUE, sibling_addr, die_off)

\* w3 is the state with the DIE entered in the history.
die_walk_on(w3, env, begin, die_off, sibling_addr, has_children) ==
    IF ~has_children
    THEN die_chain_loop(w3, env, begin, TRUE, sibling_addr, die_off)
    ELSE die_children(env, begin, die_off, sibling_addr, read_die_chain(w3, env))

die_attribs(env, begin, die_off, abbr_code, has_children, ra) ==
    IF ~ra.ok THEN [st |-> -1, w |-> ra.w]
    ELSE die_walk_on([ra.w EXCEPT !.hist = Append(@,
                        [ev |-> "die", cu_offset |-> env.cu_offset, chain |-> begin,
                         off |-> die_off, code |-> abbr_code,
                         has_children |-> has_children,
                         latch |-> ra.sibling_addr, sibs |-> ra.sibs,
                         table |-> env.abbrevs, values |-> ra.values])],
                     env, begin, die_off, ra.sibling_addr, has_children)

\* w1 is the state after the check of the sibling value, idx the index of
\* the abbreviation found.
die_found(w1, env, begin, die_off, abbr_code, idx) ==
    IF idx = 0
    THEN [st |-> -1,
          w  |-> [w1 EXCEPT !.msgs = wr_error(@, "abbrev section doesn't contain code",
                                              <<env.cu_offset, die_off, abbr_code>>)]]
    ELSE die_attribs(env, begin, die_off, abbr_code,
                     w1.chain[env.abbrevs].abbr[idx].has_children,
                     read_attribs(
                        [w1 EXCEPT
                           !.chain[env.abbrevs].abbr[idx].used = TRUE,
                           !.die_addrs = addr_record_add(@, NatToBits(env.cu_offset + die_off)),
                           !.hist = Append(@, [ev |-> "start", cu_offset |-> env.cu_offset,
                                               off |-> die_off])],
                        env, w1.chain[env.abbrevs].abbr[idx], 1, die_off, {}, << >>))

NotTerminated == "DIE chain not terminated with DIE with zero abbrev code"

\* read_die_chain returns got_die ? 1 : 0; the return enters the history:
\* zero tells whether the chain ended at a zero abbreviation code, left
\* where the loop was left ("code" by the break after a code was read,
\* "die" by its condition after a DIE, "empty" by its condition before
\* anything was read).
chain_end(w, env, begin, zero, left) ==
    [w EXCEPT !.hist = Append(@, [ev |-> "end", cu_offset |-> env.cu_offset,
                                  chain |-> begin, zero |-> zero, left |-> left])]

\* w1 is the state after the check of the sibling value.
die_checked(w1, env, begin, got_die, die_off, abbr_code) ==
    IF read_ctx_eof(w1.ctx) \/ abbr_code = {}
    THEN [st |-> IF got_die THEN 1 ELSE 0,
          w  |-> chain_end(IF abbr_code # {}
                           THEN [w1 EXCEPT !.msgs = wr_error(@, NotTerminated,
                                                             <<env.cu_offset, begin>>)]
                           ELSE w1,
                           env, begin, abbr_code = {}, "code")]
    ELSE die_found(w1, env, begin, die_off, abbr_code,
                   abbrev_table_find_abbrev(w1.chain[env.abbrevs], abbr_code))

\* msgs are the diagnostics before the check of the sibling value, m1
\* those after it.
die_sibling_checked(w, env, begin, got_die, sibling_addr, die_off, r, m1) ==
    die_checked([w EXCEPT !.ctx = r.ctx, !.msgs = m1,
                          !.hist = Append(@,
                             [ev |-> "code", cu_offset |-> env.cu_offset, chain |-> begin,
                              off |-> die_off, code |-> r.ret, latch |-> sibling_addr,
                              errs |-> { m1[k].id : k \in Len(r.msgs) + 1 .. Len(m1) }])],
                env, begin, got_die, die_off, r.ret)

die_code(w, env, begin, got_die, sibling_addr, prev_die_off, die_off, r) ==
    IF ~r.ok THEN [st |-> -1, w |-> [w EXCEPT !.ctx = r.ctx, !.msgs = r.msgs]]
    ELSE die_sibling_checked(w, env, begin, got_die, sibling_addr, die_off, r,
                             sibling_check(r.msgs, env.cu_offset, sibling_addr, r.ret,
                                           die_off, prev_die_off))

die_chain_loop(w, env, begin, got_die, sibling_addr, last_die_off) ==
    IF read_ctx_eof(w.ctx)
    THEN [st |-> IF got_die THEN 1 ELSE 0,
          w  |-> chain_end(IF sibling_addr # {}
                           THEN [w EXCEPT !.msgs = wr_error(@,
                                    "This DIE should have had its sibling at, but the DIE chain ended",
                                    <<env.cu_offset, last_die_off, sibling_addr>>)]
                           ELSE w,
                           env, begin, FALSE, IF got_die THEN "die" ELSE "empty")]
    ELSE die_code(w, env, begin, got_die, sibling_addr, last_die_off,
                  read_ctx_get_offset(w.ctx),
                  checked_read_uleb128(w.ctx, w.msgs, "abbrev code"))

read_die_chain(w, env) ==
    die_chain_loop(w, env, read_ctx_get_offset(w.ctx), FALSE, {}, 0)

\* The error of check_die_references for the i-th local reference and on.
RECURSIVE check_die_references_loop(_, _, _, _, _)
check_die_references_loop(cu_offset, die_addrs, die_refs, i, r) ==
    IF i > Len(die_refs) THEN r
    ELSE check_die_references_loop(cu_offset, die_addrs, die_refs, i + 1,
            IF ~addr_record_has_addr(die_addrs, die_refs[i].addr)
            THEN [retval |-> FALSE,
                  msgs |-> wr_error(r.msgs, "unresolved reference to",
                                    <<cu_offset, die_refs[i].who, die_refs[i].addr>>)]
            ELSE r)

check_die_references(cu_offset, die_addrs, die_refs, msgs) ==
    check_die_references_loop(cu_offset, die_addrs, die_refs, 1,
                              [retval |-> TRUE, msgs |-> msgs])

\* version is the 16-bit number read; a unit of version 2 in the 64-bit
\* format is reported and read on.
read_version(ctx, msgs, dwarf_64) ==
    LET r == read_ctx_read_2ubyte(ctx)
        version == IF r.ok THEN BitsToNat(r.ret) ELSE 0
    IN  IF ~r.ok
        THEN [ok |-> FALSE, ctx |-> r.ctx, version |-> 0,
              msgs |-> wr_error(msgs, "can't read version", << >>)]
        ELSE IF version < 2 \/ version > 3
        THEN [ok |-> FALSE, ctx |-> r.ctx, version |-> version,
              msgs |-> wr_error(msgs, IF version < 2 THEN "invalid version"
                                      ELSE "unsupported version", <<version>>)]
        ELSE [ok |-> TRUE, ctx |-> r.ctx, version |-> version,
              msgs |-> IF version = 2 /\ dwarf_64
                       THEN wr_error(msgs, "invalid 64-bit unit in DWARF 2 format", << >>)
                       ELSE msgs]

\* The index in the chain of the table at abbrev_offset, 0 if there is none.
find_abbrev_table(chain, abbrev_offset) ==
    LET found == { t \in 1..Len(chain) : NatToBits(chain[t].offset) = abbrev_offset }
    IN  IF found = {} THEN 0 ELSE CHOOSE t \in found : \A u \in found : t <= u

\* The messages for the abbreviations of a table that no DIE used.
RECURSIVE never_used(_, _, _, _)
never_used(abbr, i, cu_offset, msgs) ==
    IF i > Len(abbr) THEN msgs
    ELSE never_used(abbr, i + 1, cu_offset,
                    IF ~abbr[i].used
                    THEN message(msgs, {"impact_3", "acc_bloat", "abbrevs"},
                                 "Abbreviation is never used", <<cu_offset, abbr[i].code>>)
                    ELSE msgs)

\* check_cu_structural on the state w of the walker (w.die_addrs and
\* w.die_refs are the records of cu).  walked tells whether read_die_chain
\* ended without error; loc_refs is die_loc_refs as it was when freed.
CuResult(retval, w, walked, loc_refs) ==
    [retval |-> retval, w |-> w, walked |-> walked, loc_refs |-> loc_refs]

\* After read_die_chain (rc): the unused abbreviations are reported and
\* the local references resolved (cr).
cu_references(rc, cr) ==
    CuResult(cr.retval, [rc.w EXCEPT !.msgs = cr.msgs], TRUE, rc.w.die_loc_refs)

cu_walked(cu_offset, abbrevs, rc) ==
    IF rc.st < 0 THEN CuResult(FALSE, rc.w, FALSE, rc.w.die_loc_refs)
    ELSE cu_references(rc,
            check_die_references(cu_offset, rc.w.die_addrs, rc.w.die_loc_refs,
                                 never_used(rc.w.chain[abbrevs].abbr, 1, cu_offset,
                                            rc.w.msgs)))

\* After the header: w is the state with the header read, abbrev_offset and
\* address_size what it held.
cu_header_read(w, cu_offset, strings, dwarf_64, abbrev_offset, address_size, abbrevs) ==
    IF address_size \notin {NatToBits(4), NatToBits(8)}
    THEN CuResult(FALSE, [w EXCEPT !.msgs = wr_error(@, "Invalid address size",
                                                    <<cu_offset, address_size>>)],
                  FALSE, << >>)
    ELSE IF abbrevs = 0
    THEN CuResult(FALSE,
                  [w EXCEPT !.msgs = wr_error(@, "Couldn't find abbrev section with offset",
                                              <<cu_offset, abbrev_offset>>)],
                  FALSE, << >>)
    ELSE cu_walked(cu_offset, abbrevs,
                   read_die_chain([w EXCEPT !.die_loc_refs = << >>],
                                  [cu_offset |-> cu_offset, abbrevs |-> abbrevs,
                                   strings |-> strings, dwarf_64 |-> dwarf_64,
                                   addr_64 |-> address_size = NatToBits(8)]))

\* rv, ro and ra are the reads of version, abbrev offset and address size.
cu_address_size(w, cu_offset, strings, dwarf_64, msgs, abbrev_offset, ra) ==
    IF ~ra.ok
    THEN CuResult(FALSE, [w EXCEPT !.ctx = ra.ctx,
                             !.msgs = wr_error(msgs, "can't read address size",
                                               <<cu_offset>>)], FALSE, << >>)
    ELSE cu_header_read([w EXCEPT !.ctx = ra.ctx, !.msgs = msgs], cu_offset, strings,
                        dwarf_64, abbrev_offset, ra.ret,
                        find_abbrev_table(w.chain, abbrev_offset))

cu_abbrev_offset(w, cu_offset, strings, dwarf_64, msgs, ro) ==
    IF ~ro.ok
    THEN CuResult(FALSE, [w EXCEPT !.ctx = ro.ctx,
                             !.msgs = wr_error(msgs, "can't read abbrev offset",
                                               <<cu_offset>>)], FALSE, << >>)
    ELSE cu_address_size(w, cu_offset, strings, dwarf_64, msgs, ro.ret,
                         read_ctx_read_ubyte(ro.ctx))

cu_version(w, cu_offset, strings, dwarf_64, rv) ==
    IF ~rv.ok
    THEN CuResult(FALSE, [w EXCEPT !.ctx = rv.ctx, !.msgs = rv.msgs], FALSE, << >>)
    ELSE cu_abbrev_offset(w, cu_offset, strings, dwarf_64, rv.msgs,
                          read_ctx_read_offset(rv.ctx, dwarf_64))

check_cu_structural(w, cu_offset, strings, dwarf_64) ==
    cu_version(w, cu_offset, strings, dwarf_64, read_version(w.ctx, w.msgs, dwarf_64))

\* The scan of check_zero_padding: whether all bytes from p to end are zero.
RECURSIVE all_zero(_, _)
all_zero(ctx, p) ==
    IF p >= ctx.end THEN TRUE
    ELSE IF Deref(ctx, p) # 0 THEN FALSE
    ELSE all_zero(ctx, p + 1)

\* assert_failed: the call came with ctx->ptr == ctx->end.
check_zero_padding(ctx, msgs, category) ==
    IF ctx.ptr = ctx.end
    THEN [ok |-> FALSE, ctx |-> ctx, msgs |-> msgs, assert_failed |-> TRUE]
    ELSE IF ~all_zero(ctx, ctx.ptr)
    THEN [ok |-> FALSE, ctx |-> ctx, msgs |-> msgs, assert_failed |-> FALSE]
    ELSE [ok |-> TRUE, ctx |-> [ctx EXCEPT !.ptr = ctx.end], assert_failed |-> FALSE,
          msgs |-> message_padding_0(msgs, category, ctx.ptr - ctx.begin,
                                     ctx.end - ctx.begin)]

\* 0xffffffff and 0xffffff00 as 64-bit quantities.
DWARF3_LENGTH_64_BIT == 0..31
DWARF3_LENGTH_MIN_ESCAPE_CODE == 8..31

\* dwarf_64 is *dwarf_64p as the caller left it: it is written only where
\* the length is the 64-bit one.
read_size_extra(ctx, msgs, size32, dwarf_64) ==
    IF size32 = DWARF3_LENGTH_64_BIT
    THEN LET r == read_ctx_read_8ubyte(ctx)
         IN  IF ~r.ok
             THEN [ok |-> FALSE, ctx |-> r.ctx, size |-> {}, dwarf_64 |-> dwarf_64,
                   msgs |-> wr_error(msgs, "can't read 64bit CU length", << >>)]
             ELSE [ok |-> TRUE, ctx |-> r.ctx, size |-> r.ret, dwarf_64 |-> TRUE,
                   msgs |-> msgs]
    ELSE IF U64Le(DWARF3_LENGTH_MIN_ESCAPE_CODE, size32)
    THEN [ok |-> FALSE, ctx |-> ctx, size |-> {}, dwarf_64 |-> dwarf_64,
          msgs |-> wr_error(msgs, "unrecognized CU length escape value", <<size32>>)]
    ELSE [ok |-> TRUE, ctx |-> ctx, size |-> size32, dwarf_64 |-> dwarf_64, msgs |-> msgs]

\* The index in the chain of the first CU whose die_addrs holds addr, 0
\* if none does.
find_ref_cu(cu_chain, addr) ==
    LET found == { j \in 1..Len(cu_chain) : addr_record_has_addr(cu_chain[j].die_addrs, addr) }
    IN  IF found = {} THEN 0 ELSE CHOOSE j \in found : \A k \in found : j <= k

\* Takes a reference for resolved when any CU has DIEs around the target.
global_ref_in_range(cu_chain, it, ref, r) ==
    IF \A j \in 1..Len(cu_chain) : ~has_addr_in_range(cu_chain[j].die_addrs, ref.addr)
    THEN [retval |-> FALSE,
          msgs |-> wr_error(r.msgs, "unresolved (non-CU-local) reference to",
                            <<cu_chain[it].offset, ref.who, ref.addr>>)]
    ELSE r

\* The body of the loops of check_global_die_references for the reference
\* ref of the CU at index it of the chain.
check_global_ref(cu_chain, it, ref, r) ==
    LET ref_cu == find_ref_cu(cu_chain, ref.addr)
    IN  IF ref_cu = 0
        THEN [retval |-> FALSE,
              msgs |-> wr_error(r.msgs, "unresolved (non-CU-local) reference to",
                                <<cu_chain[it].offset, ref.who, ref.addr>>)]
        ELSE IF ref_cu = it
        THEN [retval |-> r.retval,
              msgs |-> message(r.msgs, {"impact_2", "acc_suboptimal", "die_rel_ref"},
                               "local reference formed as global",
                               <<cu_chain[it].offset, ref.who, ref.addr>>)]
        ELSE r

RECURSIVE check_global_refs_loop(_, _, _, _)
check_global_refs_loop(cu_chain, it, i, r) ==
    IF it > Len(cu_chain) THEN r
    ELSE IF i > Len(cu_chain[it].die_refs)
    THEN check_global_refs_loop(cu_chain, it + 1, 1, r)
    ELSE LET r2 == check_global_ref(cu_chain, it, cu_chain[it].die_refs[i], r)
         IN  IF r2.retval
             THEN check_global_refs_loop(cu_chain, it, i + 1, r2)
             ELSE check_global_refs_loop(cu_chain, it, i + 1, r2)

check_global_die_references(cu_chain, msgs) ==
    check_global_refs_loop(cu_chain, 1, 1, [retval |-> TRUE, msgs |-> msgs])

\* read_ctx_need_data for a 64-bit size: for a size of 2^31 or more
\* ctx->ptr + size is past the end of the section or has wrapped.
need_data_u64(ctx, size) == U64Small(size) /\ read_ctx_need_data(ctx, BitsToNat(size))

(***************************************************************************)
(* check_debug_info_structural.  Its state is [pc, ctx, chain, strings,    *)
(* strcov, cu_chain, success, msgs, hist, result]: cu_chain is the chain   *)
(* of CUs with the last one read at its head, each CU being [offset,       *)
(* length, die_addrs, die_refs].  pc is "loop" at the head of the loop     *)
(* over the CUs, "after" once the loop has been left by break, "done"      *)
(* after the return, "abort" after the failed assertion of                 *)
(* check_zero_padding and "abort_add" after that of coverage_add.          *)
(***************************************************************************)
\* The loop has been left by break.
InfoBreak(I, ctx, cu_chain, success, msgs) ==
    [I EXCEPT !.pc = "after", !.ctx = ctx, !.cu_chain = cu_chain,
              !.success = success, !.msgs = msgs]

\* The end of the body of the loop: rc is what check_cu_structural gave,
\* I2 the state with its effects, zp the check of the padding after the DIEs.
info_cu_padding(I2, ctx, size, zp) ==
    [I2 EXCEPT !.ctx = Advance(ctx, BitsToNat(size)),
               !.msgs = IF ~zp.ok
                        THEN message_padding_n0(zp.msgs, {"die_other"},
                                                read_ctx_get_offset(ctx), size)
                        ELSE zp.msgs]

info_cu_checked(I2, ctx, size, rc) ==
    IF ~rc.retval THEN InfoBreak(I2, ctx, I2.cu_chain, FALSE, rc.w.msgs)
    ELSE info_cu_padding(I2, ctx, size,
                         IF rc.w.ctx.ptr # rc.w.ctx.end
                         THEN check_zero_padding(rc.w.ctx, rc.w.msgs, {"die_other"})
                         ELSE [ok |-> TRUE, msgs |-> rc.w.msgs])

\* Whether the walk ended in the failed assertion of coverage_add.
AddAborted(hist) ==
    /\ hist # << >>
    /\ hist[Len(hist)].ev = "strp"
    /\ hist[Len(hist)].assert_failed

info_cu_done(I, ctx, cu_chain, cu_off, size, rc) ==
    IF AddAborted(rc.w.hist)
    THEN [I EXCEPT !.pc = "abort_add", !.hist = rc.w.hist, !.msgs = rc.w.msgs]
    ELSE
    info_cu_checked(
        [I EXCEPT !.chain = rc.w.chain, !.strcov = rc.w.strcov,
                  !.cu_chain = <<[cu_chain[1] EXCEPT !.die_addrs = rc.w.die_addrs,
                                                     !.die_refs = rc.w.die_refs]>>
                               \o Tail(cu_chain),
                  !.hist = Append(rc.w.hist,
                                  [ev |-> "cu", cu_offset |-> cu_off, retval |-> rc.retval,
                                   walked |-> rc.walked, loc_refs |-> rc.loc_refs,
                                   die_addrs |-> rc.w.die_addrs])],
        ctx, size, rc)

\* The body of the loop from the call of check_cu_structural on: the CU
\* context begins just before the CU length.
info_cu_body(I, ctx, cu_chain, cu_begin, cu_off, size, dwarf_64, msgs) ==
    info_cu_done(I, ctx, cu_chain, cu_off, size,
        check_cu_structural(
            [ctx |-> [read_ctx_init_sub(ctx.data, cu_begin, ctx.ptr + BitsToNat(size))
                        EXCEPT !.ptr = ctx.ptr],
             msgs |-> msgs, chain |-> I.chain,
             die_addrs |-> << >>, die_refs |-> << >>, die_loc_refs |-> << >>,
             strcov |-> I.strcov, hist |-> I.hist],
            cu_off, I.strings, dwarf_64))

\* The body of the loop after the CU length has been read (rs is what
\* read_size_extra gave).
info_cu_size(I, cu_chain_new, cu_begin, cu_off, rs) ==
    IF ~rs.ok THEN InfoBreak(I, rs.ctx, cu_chain_new, FALSE, rs.msgs)
    ELSE IF ~need_data_u64(rs.ctx, rs.size)
    THEN InfoBreak(I, [rs.ctx EXCEPT !.ptr = rs.ctx.end], cu_chain_new, FALSE,
                   wr_error(rs.msgs, "section doesn't have enough data to read CU",
                            <<cu_off, rs.size>>))
    ELSE IF BitsToNat(rs.size) < 2 + (IF rs.dwarf_64 THEN 8 ELSE 4) + 1
    THEN InfoBreak(I, rs.ctx,
                   <<[cu_chain_new[1] EXCEPT
                        !.length = rs.ctx.ptr + BitsToNat(rs.size) - cu_begin]>>
                   \o I.cu_chain,
                   FALSE,
                   wr_error(rs.msgs, "claimed length doesn't even cover CU header",
                            <<cu_off, rs.size>>))
    ELSE info_cu_body(I, rs.ctx,
                      <<[cu_chain_new[1] EXCEPT
                           !.length = rs.ctx.ptr + BitsToNat(rs.size) - cu_begin]>>
                      \o I.cu_chain,
                      cu_begin, cu_off, rs.size, rs.dwarf_64, rs.msgs)

\* r4 is the read of the 32-bit length, zp2 the check for padding made
\* when it is zero.
info_cu_length(I, cu_chain_new, cu_begin, cu_off, r4, zp2) ==
    IF zp2.assert_failed
    THEN [I EXCEPT !.pc = "abort", !.ctx = r4.ctx, !.cu_chain = cu_chain_new]
    ELSE IF zp2.ok THEN InfoBreak(I, zp2.ctx, cu_chain_new, I.success, zp2.msgs)
    ELSE info_cu_size(I, cu_chain_new, cu_begin, cu_off,
                      read_size_extra(r4.ctx, I.msgs, r4.ret, FALSE))

\* zp1 is the check for padding made when fewer than 4 bytes are left.
info_cu_start(I, cu_chain_new, cu_begin, cu_off, zp1, r4) ==
    IF zp1.ok THEN InfoBreak(I, zp1.ctx, cu_chain_new, I.success, zp1.msgs)
    ELSE IF ~r4.ok
    THEN InfoBreak(I, r4.ctx, cu_chain_new, FALSE,
                   wr_error(I.msgs, "can't read CU length", <<cu_off>>))
    ELSE info_cu_length(I, cu_chain_new, cu_begin, cu_off, r4,
                        IF r4.ret = {}
                        THEN check_zero_padding(r4.ctx, I.msgs, {"die_other"})
                        ELSE [ok |-> FALSE, assert_failed |-> FALSE])

\* One turn of the loop over the CUs: the new CU goes to the head of the
\* chain before its header is read.
info_cu_step(I) ==
    info_cu_start(I,
                  <<[offset |-> read_ctx_get_offset(I.ctx), length |-> 0,
                     die_addrs |-> << >>, die_refs |-> << >>]>> \o I.cu_chain,
                  I.ctx.ptr, read_ctx_get_offset(I.ctx),
                  IF ~read_ctx_need_data(I.ctx, 4)
                  THEN check_zero_padding(I.ctx, I.msgs, {"die_other"})
                  ELSE [ok |-> FALSE, assert_failed |-> FALSE],
                  read_ctx_read_4ubyte(I.ctx))

\* The callback for a hole of the coverage of .debug_str.
RECURSIVE strings_holes(_, _, _, _)
strings_holes(strings, calls, i, msgs) ==
    IF i > Len(calls) THEN msgs
    ELSE LET begin == calls[i][1]
             end   == calls[i][2]
             all_zeroes == \A k \in begin..end : strings.data[k + 1] = 0
         IN  strings_holes(strings, calls, i + 1,
                           IF all_zeroes
                           THEN message_padding_0(msgs, {"strings"}, begin, end)
                           ELSE message_padding_n0(msgs, {"strings"}, begin, end))

\* What follows the loop: gr is what check_global_die_references gave; the
\* returned chain is NULL (the empty chain) unless all went well.
info_return(I, gr) ==
    [I EXCEPT !.pc = "done",
              !.msgs = IF I.strcov.present /\ I.success
                       THEN strings_holes(I.strings, coverage_find_holes(I.strcov.ar), 1,
                                          gr.msgs)
                       ELSE gr.msgs,
              !.references_sound = gr.retval,
              !.result = IF ~I.success \/ ~gr.retval THEN << >> ELSE I.cu_chain]

info_finish(I) ==
    info_return(I,
        check_global_die_references(I.cu_chain,
            IF I.success /\ I.ctx.ptr # I.ctx.end
            THEN message(I.msgs, {"die_other", "impact_4"},
                         "CU lengths don't exactly match Elf_Data contents", << >>)
            ELSE I.msgs))

(***************************************************************************)
(* check_aranges_structural and check_pubnames_structural.  The state T of *)
(* either is [pc, kind, ctx, cu_chain, retval, msgs, hist]: pc is "enter"  *)
(* before the function, "loop" at the head of the loop over the tables,    *)
(* "done" after the return, "abort" after a failed assertion, "crash"      *)
(* after the read through a null struct cu pointer and "wild" once         *)
(* ctx->ptr + size has left the addresses the model keeps (see PtrKept).   *)
(* ctx.data is the memory that begins with the section: the code does not  *)
(* check that a table ends inside the section, so the reader of a table    *)
(* can run into the bytes that follow it.  hist has an entry for each call *)
(* of read_size_extra.                                                     *)
(***************************************************************************)
cu_find_cu(cu_chain, offset) ==
    LET found == { j \in 1..Len(cu_chain) : NatToBits(cu_chain[j].offset) = offset }
    IN  IF found = {} THEN 0 ELSE CHOOSE j \in found : \A k \in found : j <= k

\* return false from within the loop.
TabReturnFalse(T, ctx, msgs) ==
    [T EXCEPT !.pc = "done", !.ctx = ctx, !.retval = FALSE, !.msgs = msgs]

\* ctx->ptr + size on a 64-bit machine, where the sum wraps modulo 2^64: a
\* size of 2^64 - k is the step back by k.  SizeWraps tells that size is
\* such a one with k below 2^31, BackOf is its k.
SizeWraps(size) == (31 .. 63) \subseteq size /\ BitsToNat(size) >= 1

BackOf(size) == (2147483647 - BitsToNat(size)) + 1

PtrPlus(ptr, size) ==
    IF U64Small(size) THEN ptr + BitsToNat(size) ELSE ptr - BackOf(size)

\* Whether ctx->ptr + size is an address the model keeps: not 2^31 or more
\* bytes on, and not before the start of the section.
PtrKept(ctx, size) ==
    U64Small(size) \/ (SizeWraps(size) /\ BackOf(size) <= ctx.ptr)

\* The label next: ctx->ptr += size.
TabNextTable(T, ctx, size, retval, msgs) ==
    [T EXCEPT !.ctx = [ctx EXCEPT !.ptr = PtrPlus(@, size)], !.retval = retval,
              !.msgs = msgs]

\* The call of read_size_extra enters the history: uninit is what the
\* caller's dwarf_64 held before the call, dwarf_64 what it holds after.
TabSized(T, size32, uninit, rs) ==
    [T EXCEPT !.hist = Append(@, [ev |-> "size", site |-> T.kind, size32 |-> size32,
                                  uninit |-> uninit, ok |-> rs.ok, size |-> rs.size,
                                  dwarf_64 |-> rs.dwarf_64,
                                  consumed |-> rs.ctx.ptr - T.ctx.ptr - 4,
                                  begin |-> T.ctx.ptr, ptr |-> rs.ctx.ptr,
                                  end |-> T.ctx.end])]

\* The reader of one table: from the length field to ctx->ptr + size.
tab_sub_ctx(ctx, begin, size) ==
    [read_ctx_init_sub(ctx.data, begin, PtrPlus(ctx.ptr, size)) EXCEPT !.ptr = ctx.ptr]

\* The check of what follows the entries of a table (zp is what
\* check_zero_padding gave, where it was called).
tab_padding(T, ctx, size, zp) ==
    IF ~zp.ok
    THEN TabNextTable(T, ctx, size, FALSE,
                      message_padding_n0(zp.msgs, {"pubnames", "error"},
                                         read_ctx_get_offset(zp.ctx), size))
    ELSE TabNextTable(T, ctx, size, T.retval, zp.msgs)

tab_end(T, ctx, size, sub, msgs) ==
    tab_padding(T, ctx, size,
                IF sub.ptr # sub.end THEN check_zero_padding(sub, msgs, {"pubnames"})
                ELSE [ok |-> TRUE, ctx |-> sub, msgs |-> msgs])

\* The loop over the tuples of an address table.
RECURSIVE aranges_tuples(_, _, _, _, _, _, _)
RECURSIVE aranges_tuple_length(_, _, _, _, _, _, _, _, _)
RECURSIVE aranges_tuple(_, _, _, _, _, _, _, _)
aranges_tuple_length(T, ctx, size, cu_off, address_size, tuple_off, msgs, ra, rl) ==
    IF ~rl.ok
    THEN TabNextTable(T, ctx, size, FALSE,
                      wr_error(msgs, "can't read length field", <<cu_off, tuple_off>>))
    ELSE IF ra.ret = {} /\ rl.ret = {} THEN tab_end(T, ctx, size, rl.ctx, msgs)
    ELSE aranges_tuples(T, ctx, size, cu_off, address_size, rl.ctx, msgs)

aranges_tuple(T, ctx, size, cu_off, address_size, tuple_off, msgs, ra) ==
    IF ~ra.ok
    THEN TabNextTable(T, ctx, size, FALSE,
                      wr_error(msgs, "can't read address field", <<cu_off, tuple_off>>))
    ELSE aranges_tuple_length(T, ctx, size, cu_off, address_size, tuple_off, msgs, ra,
                              read_ctx_read_var(ra.ctx, address_size))

aranges_tuples(T, ctx, size, cu_off, address_size, sub, msgs) ==
    IF read_ctx_eof(sub) THEN tab_end(T, ctx, size, sub, msgs)
    ELSE aranges_tuple(T, ctx, size, cu_off, address_size, read_ctx_get_offset(sub),
                       msgs, read_ctx_read_var(sub, address_size))

\* The n bytes that pad the header to a multiple of the tuple size.  The
\* message of a non-zero byte names atab_off (where the reader of the table
\* begins), cu_off and read_ctx_get_offset (&sub_ctx) as it is after the read.
RECURSIVE aranges_header_padding(_, _, _, _, _, _, _, _)
RECURSIVE aranges_pad_byte(_, _, _, _, _, _, _, _)
aranges_pad_byte(T, ctx, size, cu_off, address_size, msgs, n, rb) ==
    IF ~rb.ok
    THEN TabNextTable(T, ctx, size, FALSE,
                      wr_error(msgs, "section ends after the header, but before the first entry",
                               <<cu_off>>))
    ELSE aranges_header_padding(T, ctx, size, cu_off, address_size, rb.ctx,
             IF rb.ret # {}
             THEN message(msgs, {"impact_2", "aranges"},
                          "non-zero byte in padding before the first entry",
                          <<rb.ctx.begin, cu_off, read_ctx_get_offset(rb.ctx)>>)
             ELSE msgs,
             n - 1)

aranges_header_padding(T, ctx, size, cu_off, address_size, sub, msgs, n) ==
    IF n = 0 THEN aranges_tuples(T, ctx, size, cu_off, address_size, sub, msgs)
    ELSE aranges_pad_byte(T, ctx, size, cu_off, address_size, msgs, n,
                          read_ctx_read_ubyte(sub))

\* tuple_size is 2 * address_size; off is where the header ended.
aranges_pad_count(address_size, off) ==
    IF off % (2 * address_size) = 0 THEN 0
    ELSE (off \div (2 * address_size) + 1) * (2 * address_size) - off

aranges_segment_size(T, ctx, size, cu_off, address_size, msgs, rs) ==
    IF ~rs.ok
    THEN TabNextTable(T, ctx, size, FALSE,
                      wr_error(msgs, "can't read unit segment size", <<cu_off>>))
    ELSE IF rs.ret # {}
    THEN TabNextTable(T, ctx, size, FALSE,
                      wr_warning(msgs, "dwarflint can't handle segment_size != 0",
                                 <<cu_off>>))
    ELSE aranges_header_padding(T, ctx, size, cu_off, address_size, rs.ctx, msgs,
             aranges_pad_count(address_size, read_ctx_get_offset(rs.ctx)))

aranges_address_size(T, ctx, size, cu_off, msgs, ra) ==
    IF ~ra.ok
    THEN TabNextTable(T, ctx, size, FALSE,
                      wr_error(msgs, "can't read unit address size", <<cu_off>>))
    ELSE IF ra.ret \notin {NatToBits(2), NatToBits(4), NatToBits(8)}
    THEN TabNextTable(T, ctx, size, FALSE,
                      wr_error(msgs, "invalid address size", <<cu_off, ra.ret>>))
    ELSE aranges_segment_size(T, ctx, size, cu_off, BitsToNat(ra.ret), msgs,
                              read_ctx_read_ubyte(ra.ctx))

aranges_cu_off(T, ctx, size, msgs, ro) ==
    IF ~ro.ok
    THEN TabNextTable(T, ctx, size, FALSE,
                      wr_error(msgs, "can't read debug info offset", << >>))
    ELSE aranges_address_size(T, ctx, size, ro.ret,
             IF T.cu_chain # << >> /\ cu_find_cu(T.cu_chain, ro.ret) = 0
             THEN wr_error(msgs, "unresolved reference to CU", <<ro.ret>>)
             ELSE msgs,
             read_ctx_read_ubyte(ro.ctx))

aranges_version(T, ctx, size, dwarf_64, rv) ==
    IF ~rv.ok THEN TabNextTable(T, ctx, size, FALSE, rv.msgs)
    ELSE aranges_cu_off(T, ctx, size, rv.msgs, read_ctx_read_offset(rv.ctx, dwarf_64))

aranges_size(T, atab_begin, rs) ==
    IF ~rs.ok THEN TabReturnFalse(T, rs.ctx, rs.msgs)
    ELSE IF ~PtrKept(rs.ctx, rs.size)
    THEN [T EXCEPT !.pc = "wild", !.ctx = rs.ctx, !.msgs = rs.msgs]
    ELSE aranges_version(T, rs.ctx, rs.size, rs.dwarf_64,
                         read_version(tab_sub_ctx(rs.ctx, atab_begin, rs.size),
                                      rs.msgs, rs.dwarf_64))

aranges_sized(T, atab_begin, size32, uninit, rs) ==
    aranges_size(TabSized(T, size32, uninit, rs), atab_begin, rs)

aranges_length(T, uninit, r4) ==
    IF ~r4.ok
    THEN TabReturnFalse(T, r4.ctx,
                        wr_error(T.msgs, "can't read unit length",
                                 <<read_ctx_get_offset(T.ctx)>>))
    ELSE aranges_sized(T, T.ctx.ptr, r4.ret, uninit,
                       read_size_extra(r4.ctx, T.msgs, r4.ret, uninit))

\* One turn of the loop of check_aranges_structural.  dwarf_64 is declared
\* in the body of the loop without an initial value: uninit is what it holds.
aranges_step(T, uninit) == aranges_length(T, uninit, read_ctx_read_4ubyte(T.ctx))

\* The loop over the pairs of a set of names; cu is the index of the CU in
\* the chain.
RECURSIVE pubnames_pairs(_, _, _, _, _, _, _)
RECURSIVE pubnames_pair(_, _, _, _, _, _, _, _)
RECURSIVE pubnames_name(_, _, _, _, _, _, _, _)
pubnames_name(T, ctx, size, dwarf_64, cu, pair_off, msgs, rb) ==
    IF ~rb.ok
    THEN TabNextTable(T, ctx, size, FALSE,
                      wr_error(msgs, "can't read symbol name", <<pair_off>>))
    ELSE IF rb.ret # {}
    THEN pubnames_name(T, ctx, size, dwarf_64, cu, pair_off, msgs,
                       read_ctx_read_ubyte(rb.ctx))
    ELSE pubnames_pairs(T, ctx, size, dwarf_64, cu, rb.ctx, msgs)

pubnames_pair(T, ctx, size, dwarf_64, cu, pair_off, msgs, ro) ==
    IF ~ro.ok
    THEN TabNextTable(T, ctx, size, FALSE,
                      wr_error(msgs, "can't read offset field", <<pair_off>>))
    ELSE IF ro.ret = {} THEN tab_end(T, ctx, size, ro.ctx, msgs)
    ELSE IF ~addr_record_has_addr(T.cu_chain[cu].die_addrs,
                                  U64Add(ro.ret, NatToBits(T.cu_chain[cu].offset)))
    THEN TabNextTable(T, ctx, size, FALSE,
                      wr_error(msgs, "unresolved reference to DIE", <<pair_off, ro.ret>>))
    ELSE pubnames_name(T, ctx, size, dwarf_64, cu, pair_off, msgs,
                       read_ctx_read_ubyte(ro.ctx))

pubnames_pairs(T, ctx, size, dwarf_64, cu, sub, msgs) ==
    IF read_ctx_eof(sub) THEN tab_end(T, ctx, size, sub, msgs)
    ELSE pubnames_pair(T, ctx, size, dwarf_64, cu, read_ctx_get_offset(sub), msgs,
                       read_ctx_read_offset(sub, dwarf_64))

\* cu is 0 where cu_find_cu gave NULL: the code reads cu->length all the same.
pubnames_cu_len(T, ctx, size, dwarf_64, cu_off, cu, msgs, rl) ==
    IF ~rl.ok
    THEN TabNextTable(T, ctx, size, FALSE,
                      wr_error(msgs, "can't read debug info offset", <<cu_off>>))
    ELSE IF cu = 0 THEN [T EXCEPT !.pc = "crash", !.ctx = ctx, !.msgs = msgs]
    ELSE IF rl.ret # NatToBits(T.cu_chain[cu].length)
    THEN TabNextTable(T, ctx, size, FALSE,
                      wr_error(msgs, "the set covers length but CU has length",
                               <<cu_off, rl.ret, T.cu_chain[cu].length>>))
    ELSE pubnames_pairs(T, ctx, size, dwarf_64, cu, rl.ctx, msgs)

pubnames_cu_found(T, ctx, size, dwarf_64, msgs, ro, cu) ==
    pubnames_cu_len(T, ctx, size, dwarf_64, ro.ret, cu,
                    IF T.cu_chain # << >> /\ cu = 0
                    THEN wr_error(msgs, "unresolved reference to CU", <<ro.ret>>)
                    ELSE msgs,
                    read_ctx_read_offset(ro.ctx, dwarf_64))

pubnames_cu_off(T, ctx, size, dwarf_64, msgs, ro) ==
    IF ~ro.ok
    THEN TabNextTable(T, ctx, size, FALSE,
                      wr_error(msgs, "can't read debug info offset", << >>))
    ELSE pubnames_cu_found(T, ctx, size, dwarf_64, msgs, ro,
                           cu_find_cu(T.cu_chain, ro.ret))

pubnames_version(T, ctx, size, dwarf_64, msgs, rv) ==
    IF ~rv.ok
    THEN TabNextTable(T, ctx, size, FALSE,
                      wr_error(msgs, "can't read set version", << >>))
    ELSE pubnames_cu_off(T, ctx, size, dwarf_64, msgs,
                         read_ctx_read_offset(rv.ctx, dwarf_64))

pubnames_size(T, set_begin, rs) ==
    IF ~rs.ok THEN TabReturnFalse(T, rs.ctx, rs.msgs)
    ELSE IF ~PtrKept(rs.ctx, rs.size)
    THEN [T EXCEPT !.pc = "wild", !.ctx = rs.ctx, !.msgs = rs.msgs]
    ELSE pubnames_version(T, rs.ctx, rs.size, rs.dwarf_64, rs.msgs,
                          read_ctx_read_2ubyte(tab_sub_ctx(rs.ctx, set_begin, rs.size)))

pubnames_sized(T, set_begin, size32, uninit, rs) ==
    pubnames_size(TabSized(T, size32, uninit, rs), set_begin, rs)

pubnames_length(T, uninit, r4) ==
    IF ~r4.ok
    THEN TabReturnFalse(T, r4.ctx,
                        wr_error(T.msgs, "can't read set length",
                                 <<read_ctx_get_offset(T.ctx)>>))
    ELSE pubnames_sized(T, T.ctx.ptr, r4.ret, uninit,
                        read_size_extra(r4.ctx, T.msgs, r4.ret, uninit))

\* One turn of the loop of check_pubnames_structural; uninit as above.
pubnames_step(T, uninit) == pubnames_length(T, uninit, read_ctx_read_4ubyte(T.ctx))

(***************************************************************************)
(* Values the variables of the benches not in use keep.                    *)
(***************************************************************************)
NoReader == /\ rctx = read_ctx_init(<< >>)
            /\ rlast = [op |-> "none"]

NoCoverage == /\ cov = [size |-> 0, alloc |-> 0, buf |-> << >>]
              /\ cov_marked = {}
              /\ cov_holes = [fresh |-> FALSE, calls |-> << >>]

NoAbbrev == /\ ab_in = << >>
            /\ ab_out = [pc |-> "none"]

NoInfo == info = [pc |-> "none"]

NoTab == tab = [pc |-> "none"]

NoOut == out = [pc |-> "none"]

NoRecord == rec = [pc |-> "none"]
NoRules == rules = [pc |-> "none"]

(***************************************************************************)
(* The reader bench: any sequence of reader operations on a cursor over    *)
(* one input.  The inputs are a first byte, a run of equal bytes and a     *)
(* last byte, which covers LEB128 encodings of 1 to MaxRun + 2 bytes; the  *)
(* cursor ends at the end of the data or one byte before it.               *)
(***************************************************************************)
MaxRun == 10

MaxSkip == 3

FirstBytes == {0, 1, 128, 255}
MidBytes   == {128, 255}
LastBytes  == {0, 1, 2, 127}

RECURSIVE Rep(_, _)
Rep(b, k) == IF k = 0 THEN << >> ELSE <<b>> \o Rep(b, k - 1)

ReaderInputs ==
    { <<f>> \o Rep(m, k) \o <<l>> :
        f \in FirstBytes, m \in MidBytes, k \in 0..MaxRun, l \in LastBytes }

\* Skip lengths: the small ones, and 2^40.
SkipLengths == { NatToBits(n) : n \in 0..MaxSkip } \cup { {40} }

LebOps == {"read_uleb128", "read_sleb128"}

ReaderInit ==
    /\ \E d \in ReaderInputs, e \in {0, 1} :
          rctx = read_ctx_init_sub(d, 0, Len(d) - e)
    /\ rlast = [op |-> "none", before |-> 0, failed |-> FALSE, st |-> 0, ret |-> {}]
    /\ NoCoverage /\ NoAbbrev /\ NoInfo /\ NoTab /\ NoOut /\ NoRecord /\ NoRules

\* The bench records a boolean operation's outcome.
Record(op, r) ==
    /\ rctx' = r.ctx
    /\ rlast' = [op |-> op, before |-> rctx.ptr, failed |-> ~r.ok,
                 st |-> IF r.ok THEN 0 ELSE -1, ret |-> r.ret]
    /\ UNCHANGED <<cov, cov_marked, cov_holes, ab_in, ab_out, info, tab, out, rec, rules>>

\* The bench records a LEB128 operation's outcome.
RecordLeb(op, r) ==
    /\ rctx' = r.ctx
    /\ rlast' = [op |-> op, before |-> rctx.ptr, failed |-> r.st < 0,
                 st |-> r.st, ret |-> r.ret]
    /\ UNCHANGED <<cov, cov_marked, cov_holes, ab_in, ab_out, info, tab, out, rec, rules>>

ReadUbyte  == Record("read_ubyte", read_ctx_read_ubyte(rctx))
Read2ubyte == Record("read_2ubyte", read_ctx_read_2ubyte(rctx))
Read4ubyte == Record("read_4ubyte", read_ctx_read_4ubyte(rctx))
Read8ubyte == Record("read_8ubyte", read_ctx_read_8ubyte(rctx))
ReadOffset == \E dwarf64 \in BOOLEAN :
                 Record("read_offset", read_ctx_read_offset(rctx, dwarf64))
ReadVar    == \E width \in {1, 2, 3, 4, 8} :
                 Record("read_var", read_ctx_read_var(rctx, width))
Skip       == \E len \in SkipLengths : Record("skip", read_ctx_skip(rctx, len))
ReadUleb   == RecordLeb("read_uleb128", read_ctx_read_uleb128(rctx))
ReadSleb   == RecordLeb("read_sleb128", read_ctx_read_sleb128(rctx))

ReaderNext ==
    \/ ReadUbyte \/ Read2ubyte \/ Read4ubyte \/ Read8ubyte
    \/ ReadOffset \/ ReadVar \/ Skip \/ ReadUleb \/ ReadSleb

SpecReader == ReaderInit /\ [][ReaderNext]_vars

\* The bytes of the input at which the last operation started.
BeforeByte(k) == Deref(rctx, rlast.before + k)

\* The encoding the last operation started at has more than n bytes: its
\* first n bytes lie before end and all have the continuation bit.
EncodingLongerThan(n) ==
    \A k \in 0 .. n - 1 : rlast.before + k < rctx.end /\ BeforeByte(k) >= 128

\* The encoding the last operation started at is complete and has n bytes.
EncodingHasLength(n) ==
    /\ n >= 1
    /\ EncodingLongerThan(n - 1)
    /\ rlast.before + n - 1 < rctx.end
    /\ BeforeByte(n - 1) < 128

\* The value of a complete n-byte ULEB128 encoding: the sum of payload_k * 128^k.
RECURSIVE UlebValue(_)
UlebValue(n) ==
    IF n = 0 THEN {}
    ELSE UlebValue(n - 1)
         \cup { 7 * (n - 1) + j : j \in NatToBits(BeforeByte(n - 1) % 128) }

\* C1 (as amended): every reader operation keeps begin <= ptr <= end; a
\* failed fixed-width read, read_offset, read_var or skip leaves ptr where it
\* was; a failed read_uleb128 or read_sleb128 leaves ptr behind the bytes it
\* consumed, which is end (truncated input) or ten bytes on (encoding too long).
C1_ReaderBoundsAndFailure ==
    /\ rctx.begin <= rctx.ptr /\ rctx.ptr <= rctx.end
    /\ (rlast.failed /\ rlast.op \notin LebOps) => rctx.ptr = rlast.before
    /\ (rlast.failed /\ rlast.op \in LebOps) =>
           (rctx.ptr = rctx.end \/ rctx.ptr = rlast.before + 10)

\* C1 witness: read_4ubyte failed with one to three bytes left and did not move.
C1_Witness ==
    /\ rlast.op = "read_4ubyte" /\ rlast.failed
    /\ rctx.ptr = rlast.before
    /\ rctx.end - rctx.ptr \in 1..3

\* C1 (as stated): begin <= ptr <= end, and every failed operation, the
\* LEB128 readers included, leaves ptr equal to its value before the call.
C1_Original ==
    /\ rctx.begin <= rctx.ptr /\ rctx.ptr <= rctx.end
    /\ rlast.failed => rctx.ptr = rlast.before

\* C2 (as stated): read_uleb128 returns -1 only for a truncated input or a
\* value that does not fit in 64 bits; every complete encoding of at most 10
\* bytes whose value is below 2^64 is returned with status 0, or status 1 when
\* its last group has payload 0 and is not the first group.
C2_UlebAcceptsEvery64BitValue ==
    rlast.op = "read_uleb128" =>
        \A n \in 1..10 :
            (/\ EncodingHasLength(n)
             /\ (n = 10 => BeforeByte(9) % 128 <= 1))
            => /\ rlast.st = (IF n > 1 /\ BeforeByte(n - 1) % 128 = 0 THEN 1 ELSE 0)
               /\ rlast.ret = UlebValue(n)

\* C3: read_uleb128 and read_sleb128 return -1 for every encoding longer than
\* 10 bytes, and neither consumes more than 10 bytes.
C3_LebRefusesLongEncodings ==
    rlast.op \in LebOps =>
        /\ rctx.ptr - rlast.before <= 10
        /\ EncodingLongerThan(10) => rlast.st = -1

\* C3 witness: read_sleb128 met eleven or more bytes, returned -1 after ten.
C3_Witness ==
    /\ rlast.op = "read_sleb128"
    /\ EncodingLongerThan(10)
    /\ rlast.st = -1
    /\ rctx.ptr = rlast.before + 10

(***************************************************************************)
(* The coverage bench: a coverage set of some size, any sequence of        *)
(* coverage_add calls that satisfy its assertions (begin <= end <= size),  *)
(* and coverage_find_holes.  The bench keeps the indices it passed to      *)
(* coverage_add, and whether the holes on record follow the last add.      *)
(***************************************************************************)
MaxCovWords == 2

CovSizes == {2, coverage_emt_bits, coverage_emt_bits * MaxCovWords + 2}

\* The ends of the ranges added: the word boundaries and the last indices.
CovPoints(size) ==
    { p \in 0..size : p % coverage_emt_bits \in {0, coverage_emt_bits - 1}
                      \/ p >= size - 2 }

CovInit ==
    /\ \E size \in CovSizes : cov = coverage_init(size)
    /\ cov_marked = {}
    /\ cov_holes = [fresh |-> FALSE, calls |-> << >>]
    /\ NoReader /\ NoAbbrev /\ NoInfo /\ NoTab /\ NoOut /\ NoRecord /\ NoRules

CovAdd ==
    \E begin \in CovPoints(cov.size), end \in CovPoints(cov.size) :
        /\ begin <= end /\ end <= cov.size
        /\ cov' = coverage_add(cov, begin, end)
        /\ cov_marked' = cov_marked \cup (begin .. end)
        /\ cov_holes' = [fresh |-> FALSE, calls |-> << >>]
        /\ UNCHANGED <<rctx, rlast, ab_in, ab_out, info, tab, out, rec, rules>>

CovFindHoles ==
    /\ ~cov_holes.fresh
    /\ cov_holes' = [fresh |-> TRUE, calls |-> coverage_find_holes(cov)]
    /\ UNCHANGED <<rctx, rlast, cov, cov_marked, ab_in, ab_out, info, tab, out, rec, rules>>

CovNext == CovAdd \/ CovFindHoles

SpecCov == CovInit /\ [][CovNext]_vars

\* The unmarked indices of [0, N), and their maximal runs as inclusive pairs.
Unmarked == (0 .. cov.size - 1) \ cov_marked

Min(S) == CHOOSE x \in S : \A y \in S : x <= y

MaximalRuns ==
    LET starts == { b \in Unmarked : b - 1 \notin Unmarked }
        ends   == { e \in Unmarked : e + 1 \notin Unmarked }
    IN  { <<b, Min({ e \in ends : e >= b })>> : b \in starts }

\* C5: the ranges coverage_find_holes passes to the callback are exactly the
\* maximal runs of unmarked indices of [0, N), each once, inclusive on both
\* ends (a single unmarked index b as (b, b)); with the marked indices they
\* partition [0, N).
C5_HolesAreMaximalRuns ==
    cov_holes.fresh =>
        LET calls == cov_holes.calls
        IN  /\ { calls[k] : k \in 1..Len(calls) } = MaximalRuns
            /\ Len(calls) = Cardinality(MaximalRuns)
            /\ \A k \in 1..Len(calls) :
                   /\ calls[k][1] <= calls[k][2]
                   /\ calls[k][2] < cov.size
                   /\ \A x \in calls[k][1] .. calls[k][2] : x \notin cov_marked

\* C5 witness: after adds in two words, a hole of one index was reported as
\* (b, b) next to a longer hole.
C5_Witness ==
    /\ cov_holes.fresh
    /\ cov.alloc > 2
    /\ \E k \in 1..Len(cov_holes.calls) :
           cov_holes.calls[k][1] = cov_holes.calls[k][2]
    /\ \E k \in 1..Len(cov_holes.calls) :
           cov_holes.calls[k][1] < cov_holes.calls[k][2]

(***************************************************************************)
(* Bench of the abbreviation loader: .debug_abbrev is a sequence of at     *)
(* most MaxAbbrevs items, an item being a zero byte (the end of a table)   *)
(* or an abbreviation (a code followed by tag, has_children and attribute  *)
(* pairs), with up to MaxCut bytes missing at the end.                     *)
(***************************************************************************)
MaxAbbrevs == 3
MaxCut == 1

\* ULEB128 of the codes 1, 2 and 2^31 + 1.
AbbrevCodes == { <<1>>, <<2>>, <<129, 128, 128, 128, 8>> }

\* tag, has_children and the pairs up to the terminating 0, 0:
\* no attribute; DW_AT_sibling as ref4 and a name as string; a pair with
\* name 0 and form data1 before a pair with a name.
AbbrevBodies ==
    { <<17, DW_CHILDREN_no, 0, 0>>,
      <<46, DW_CHILDREN_yes, DW_AT_sibling, DW_FORM_ref4, 3, DW_FORM_string, 0, 0>>,
      <<52, DW_CHILDREN_no, 0, DW_FORM_data1, 3, DW_FORM_string, 0, 0>> }

AbbrevItems == { <<0>> } \cup { c \o b : c \in AbbrevCodes, b \in AbbrevBodies }

RECURSIVE AbbrevSections(_)
AbbrevSections(n) ==
    IF n = 0 THEN { << >> }
    ELSE LET shorter == AbbrevSections(n - 1)
         IN  shorter \cup { s \o i : s \in shorter, i \in AbbrevItems }

\* The sections of at most MaxAbbrevs items, cut, and those that end right
\* after an abbreviation code.
AbbrevInputs ==
    { SubSeq(s, 1, Len(s) - cut) :
        s \in AbbrevSections(MaxAbbrevs), cut \in 0..MaxCut }
    \cup { s \o c : s \in AbbrevSections(MaxAbbrevs - 1), c \in AbbrevCodes }

AbbrevInit ==
    /\ ab_in \in { s \in AbbrevInputs : s # << >> }
    /\ ab_out = [pc |-> "none"]
    /\ NoReader /\ NoCoverage /\ NoInfo /\ NoTab /\ NoOut /\ NoRecord /\ NoRules

\* process_file: the section is handed to abbrev_table_load.
AbbrevLoad ==
    /\ ab_out.pc = "none"
    /\ LET r == abbrev_table_load(read_ctx_init(ab_in))
       IN  ab_out' = [pc |-> "loaded", ok |-> r.ok, chain |-> r.chain, msgs |-> r.msgs,
                      last_code |-> r.last_code]
    /\ UNCHANGED <<rctx, rlast, cov, cov_marked, cov_holes, ab_in, info, tab, out, rec, rules>>

AbbrevNext == AbbrevLoad

SpecAbbrev == AbbrevInit /\ [][AbbrevNext]_vars

\* C6: for every .debug_abbrev for which abbrev_table_load returns a chain,
\* the codes of each table are strictly increasing as 64-bit numbers (so the
\* table is sorted over the whole code range and no code occurs twice).
C6_TablesStrictlyIncreasing ==
    (ab_out.pc = "loaded" /\ ab_out.chain # << >>) =>
        \A t \in 1..Len(ab_out.chain) :
            \A k \in 1..(Len(ab_out.chain[t].abbr) - 1) :
                U64Lt(ab_out.chain[t].abbr[k].code, ab_out.chain[t].abbr[k + 1].code)

(***************************************************************************)
(* Bench of the .debug_info check.  The abbreviations are those that       *)
(* abbrev_table_load makes of InfoAbbrev; .debug_info is a CU of DIEs      *)
(* drawn from DieItems (at most MaxHead of them) and TailItems (at most    *)
(* MaxTail more), alone or after the CU FirstCU.                           *)
(***************************************************************************)
MaxHead == 2
MaxTail == 2

\* One table at offset 0 (73 is the attribute DW_AT_type):
\*   1  has children, no attribute
\*   2  no children, DW_AT_type as ref1
\*   3  has children, DW_AT_sibling as ref1
\*   4  no children, DW_AT_type as ref_addr
\*   5  no children, DW_AT_sibling as ref_addr
\*   6  no children, DW_AT_sibling as ref1
\*   7  no children, DW_AT_type as indirect
InfoAbbrev ==
    <<1, 17, DW_CHILDREN_yes, 0, 0>>
    \o <<2, 36, DW_CHILDREN_no, 73, DW_FORM_ref1, 0, 0>>
    \o <<3, 46, DW_CHILDREN_yes, DW_AT_sibling, DW_FORM_ref1, 0, 0>>
    \o <<4, 52, DW_CHILDREN_no, 73, DW_FORM_ref_addr, 0, 0>>
    \o <<5, 15, DW_CHILDREN_no, DW_AT_sibling, DW_FORM_ref_addr, 0, 0>>
    \o <<6, 13, DW_CHILDREN_no, DW_AT_sibling, DW_FORM_ref1, 0, 0>>
    \o <<7, 36, DW_CHILDREN_no, 73, DW_FORM_indirect, 0, 0>>
    \o <<0>>

InfoAbbrevChain == abbrev_table_load(read_ctx_init(InfoAbbrev)).chain

\* The header of a 32-bit CU of version 2 with n bytes of DIEs, its
\* abbreviations at offset 0 and addresses of 4 bytes: 11 bytes.
CuHeader(n) == <<7 + n, 0, 0, 0, 2, 0, 0, 0, 0, 0, 4>>

CuBytes(dies) == CuHeader(Len(dies)) \o dies

\* A CU of 14 bytes: a DIE at offset 11 that refers to itself, and the
\* terminator.
FirstCU == CuBytes(<<2, 11, 0>>)

\* The first DIE of a CU is at offset 11 of the CU; after FirstCU that of
\* the second CU is at offset 25 of the section.
LocalRefs  == {11, 13, 14}
Siblings   == {13, 14, 16}
GlobalRefs == {11, 13, 25}

DieItems ==
    { <<0>>, <<1>> }
    \cup { <<2, v>> : v \in LocalRefs }
    \cup { <<3, s>> : s \in Siblings }
    \cup { <<6, s>> : s \in Siblings }
    \cup { <<4, a, 0, 0, 0>> : a \in GlobalRefs }
    \cup { <<5, 14, 0, 0, 0>> }

TailItems == { <<0>>, <<1>>, <<2, 11>>, <<6, 16>> }

RECURSIVE ItemSeqs(_, _)
ItemSeqs(n, items) ==
    IF n = 0 THEN { << >> }
    ELSE LET shorter == ItemSeqs(n - 1, items)
         IN  shorter \cup { s \o i : s \in shorter, i \in items }

InfoInputs ==
    { first \o CuBytes(h \o t) :
        first \in { << >>, FirstCU },
        h \in ItemSeqs(MaxHead, DieItems),
        t \in ItemSeqs(MaxTail, TailItems) }

\* DIEs of abbreviation 7: the form, then the value in that form.
IndirectItems ==
    { <<7, DW_FORM_ref1, 11>>, <<7, DW_FORM_ref1, 40>>, <<7, DW_FORM_ref_udata, 11>>,
      <<7, DW_FORM_ref2, 11, 0>>, <<7, DW_FORM_ref_addr, 11, 0, 0, 0>>,
      <<7, DW_FORM_data1, 11>>, <<7, DW_FORM_indirect, DW_FORM_ref1, 11>> }

IndirectInputs ==
    { first \o CuBytes(i \o t) :
        first \in { << >>, FirstCU }, i \in IndirectItems, t \in { <<0>>, <<2, 11, 0>> } }

\* Sections that end with bytes after the last CU.
PaddedInputs ==
    { FirstCU \o pad : pad \in { <<0>>, <<0, 0, 0>>, <<0, 0, 0, 0>>, <<0, 0, 0, 0, 0, 0>>,
                                 <<0, 1>>, <<0, 0, 0, 0, 1>> } }

\* A table whose abbreviation 1 has a pair of name 0 and form DW_FORM_data1
\* between two pairs of DW_AT_name, and DIEs of it with one to three bytes
\* of values.
NullNameAbbrev ==
    <<1, 36, DW_CHILDREN_no, 3, DW_FORM_data1, 0, DW_FORM_data1, 3, DW_FORM_data1, 0, 0>>
    \o <<0>>

NullNameChain == abbrev_table_load(read_ctx_init(NullNameAbbrev)).chain

NullNameInputs ==
    { CuBytes(d \o t) : d \in { <<1, 5>>, <<1, 5, 6, 7>> }, t \in { <<0>>, <<1, 5, 0>> } }

\* DIEs of abbreviation 7 with a value of the form DW_FORM_strp.
StrpItems == { <<7, DW_FORM_strp, a, 0, 0, 0>> : a \in 0 .. 3 }

StrpInputs ==
    { first \o CuBytes(i \o <<0>>) : first \in { << >>, FirstCU }, i \in StrpItems }

\* .debug_str: "a" and "b", the same without the last zero byte, and the
\* same followed by padding; tail is the number of nonzero bytes that
\* follow the section in memory.
StrSections ==
    { [present |-> TRUE, data |-> d, tail |-> t] :
        d \in { <<97, 0, 98, 0>>, <<97, 0, 98>>, <<97, 0, 0>> }, t \in {0, 2} }

\* check_debug_info_structural keeps the coverage of .debug_str when the
\* messages of mc_strings are accepted (check_category).
StrCoverages ==
    { [strings |-> strings, strcov |-> NULL] : strings \in StrSections }
    \cup { [strings |-> strings,
            strcov |-> [present |-> TRUE, ar |-> coverage_init(Len(strings.data))]] :
            strings \in StrSections }

\* process_file: .debug_info is checked when the abbreviations loaded and
\* the file has a .debug_str; with the default criteria (mc_strings not
\* accepted) no string coverage is kept.
InfoInit ==
    /\ info \in { [pc |-> "loop", ctx |-> read_ctx_init(data), chain |-> InfoAbbrevChain,
                   strings |-> [present |-> TRUE, data |-> << >>, tail |-> 0],
                   strcov |-> NULL, cu_chain |-> << >>,
                   success |-> TRUE, msgs |-> << >>, hist |-> << >>,
                   references_sound |-> TRUE, result |-> << >>] :
                   data \in InfoInputs \cup IndirectInputs \cup PaddedInputs }
             \cup
             { [pc |-> "loop", ctx |-> read_ctx_init(data), chain |-> InfoAbbrevChain,
                strings |-> sc.strings, strcov |-> sc.strcov, cu_chain |-> << >>,
                success |-> TRUE, msgs |-> << >>, hist |-> << >>,
                references_sound |-> TRUE, result |-> << >>] :
                data \in StrpInputs, sc \in StrCoverages }
             \cup
             { [pc |-> "loop", ctx |-> read_ctx_init(data), chain |-> NullNameChain,
                strings |-> [present |-> TRUE, data |-> << >>, tail |-> 0],
                strcov |-> NULL, cu_chain |-> << >>,
                success |-> TRUE, msgs |-> << >>, hist |-> << >>,
                references_sound |-> TRUE, result |-> << >>] :
                data \in NullNameInputs }
    /\ NoReader /\ NoCoverage /\ NoAbbrev /\ NoTab /\ NoOut /\ NoRecord /\ NoRules

InfoCU ==
    /\ info.pc = "loop"
    /\ ~read_ctx_eof(info.ctx)
    /\ info' = info_cu_step(info)
    /\ UNCHANGED <<rctx, rlast, cov, cov_marked, cov_holes, ab_in, ab_out, tab, out, rec, rules>>

InfoFinish ==
    /\ info.pc = "after" \/ (info.pc = "loop" /\ read_ctx_eof(info.ctx))
    /\ info' = info_finish(info)
    /\ UNCHANGED <<rctx, rlast, cov, cov_marked, cov_holes, ab_in, ab_out, tab, out, rec, rules>>

InfoNext == InfoCU \/ InfoFinish

SpecInfo == InfoInit /\ [][InfoNext]_vars

\* The history of the walker, and the places in it of one kind of entry.
Hist == info.hist

HistOf(ev) == { i \in 1..Len(Hist) : Hist[i].ev = ev }

\* The abbreviation codes read, after the entry i, in the chain of entry i.
LaterCodes(i) ==
    { j \in HistOf("code") : /\ j > i
                             /\ Hist[j].cu_offset = Hist[i].cu_offset
                             /\ Hist[j].chain = Hist[i].chain }

LastSibling == "is the last sibling in chain, but has a DW_AT_sibling attribute"
SiblingElsewhere == "This DIE should have had its sibling at"

\* The check of the sibling value S of the DIE at entry i when the code at
\* entry j was read.
SiblingChecked(S, j) ==
    /\ Hist[j].code = {} => Hist[j].errs = {LastSibling}
    /\ Hist[j].code # {} =>
          /\ LastSibling \notin Hist[j].errs
          /\ SiblingElsewhere \in Hist[j].errs <=> S # NatToBits(Hist[j].off)

CuEntries == HistOf("cu")

DieStarts(cu_offset) ==
    { NatToBits(cu_offset + Hist[k].off) :
        k \in { k \in HistOf("start") : Hist[k].cu_offset = cu_offset } }

\* C8: a CU-local reference with raw value v, decoded in a CU of len bytes,
\* is recorded (as v + cu.offset) iff v < len; otherwise, v = len included,
\* the error 'invalid reference outside the CU' is given and nothing recorded.
C8_LocalRefBelowLength ==
    \A i \in HistOf("ref") :
        Hist[i].local =>
            /\ Hist[i].recorded <=> U64Lt(Hist[i].value, NatToBits(Hist[i].len))
            /\ Hist[i].error <=> ~Hist[i].recorded
            /\ Hist[i].recorded =>
                  \E c \in CuEntries :
                      /\ Hist[c].cu_offset = Hist[i].cu_offset
                      /\ \E n \in 1..Len(Hist[c].loc_refs) :
                            Hist[c].loc_refs[n] =
                               [addr |-> U64Add(Hist[i].value, NatToBits(Hist[i].cu_offset)),
                                who  |-> Hist[i].who]

\* Whether a diagnostic with this format string and these numbers was given.
Given(fn, id, args) ==
    \E k \in 1..Len(info.msgs) :
        info.msgs[k].fn = fn /\ info.msgs[k].id = id /\ info.msgs[k].args = args

\* The recorded local references of the CU of entry c that are not the
\* section offset of a DIE start of that CU.
Dangling(c) ==
    { n \in 1..Len(Hist[c].loc_refs) :
        Hist[c].loc_refs[n].addr \notin DieStarts(Hist[c].cu_offset) }

\* C9: after a CU's DIE chain has been walked without fatal error,
\* check_cu_structural returns false iff some recorded local reference has
\* a target that is not the section offset of a DIE start of that CU, and
\* 'unresolved reference' is given for exactly those references; an offset
\* in the middle of a DIE is not a DIE start.
C9_LocalRefsResolve ==
    \A c \in CuEntries :
        Hist[c].walked =>
            /\ ~Hist[c].retval <=> Dangling(c) # {}
            /\ \A n \in 1..Len(Hist[c].loc_refs) :
                  Given("wr_error", "unresolved reference to",
                        <<Hist[c].cu_offset, Hist[c].loc_refs[n].who,
                          Hist[c].loc_refs[n].addr>>)
                  <=> n \in Dangling(c)

\* A walked CU fails for a reference into the middle of a DIE: DIEs start
\* below and above its target.
C9_Witness ==
    \E c \in CuEntries :
        /\ Hist[c].walked /\ ~Hist[c].retval
        /\ \E n \in Dangling(c) :
              \E lo, hi \in DieStarts(Hist[c].cu_offset) :
                  /\ U64Lt(lo, Hist[c].loc_refs[n].addr)
                  /\ U64Lt(Hist[c].loc_refs[n].addr, hi)
        /\ \E n \in 1..Len(Hist[c].loc_refs) : n \notin Dangling(c)

\* The CUs of the chain that have a DIE starting at addr.
Holders(addr) ==
    { d \in 1..Len(info.cu_chain) : addr \in DieStarts(info.cu_chain[d].offset) }

RefsOf(c) == 1..Len(info.cu_chain[c].die_refs)

\* C10: after all CUs are parsed, every DW_FORM_ref_addr reference met is
\* in the die_refs of its CU; for each of them 'unresolved (non-CU-local)
\* reference' is given iff no CU has a DIE starting at the target, and
\* 'local reference formed as global' iff the CU that has it is the
\* referrer's own; the function returns false iff some reference is
\* unresolved, and no chain is returned then.
C10_GlobalRefsResolve ==
    info.pc = "done" =>
        /\ \A i \in HistOf("ref") :
              ~Hist[i].local =>
                  \E c \in 1..Len(info.cu_chain) :
                      /\ info.cu_chain[c].offset = Hist[i].cu_offset
                      /\ \E n \in RefsOf(c) :
                            info.cu_chain[c].die_refs[n] =
                               [addr |-> Hist[i].value, who |-> Hist[i].who]
        /\ \A c \in 1..Len(info.cu_chain) : \A n \in RefsOf(c) :
              LET ref  == info.cu_chain[c].die_refs[n]
                  args == <<info.cu_chain[c].offset, ref.who, ref.addr>>
              IN  /\ Given("wr_error", "unresolved (non-CU-local) reference to", args)
                     <=> Holders(ref.addr) = {}
                  /\ Given("message", "local reference formed as global", args)
                     <=> c \in Holders(ref.addr)
        /\ ~info.references_sound <=>
              \E c \in 1..Len(info.cu_chain) : \E n \in RefsOf(c) :
                  Holders(info.cu_chain[c].die_refs[n].addr) = {}
        /\ ~info.references_sound => info.result = << >>

\* A CU refers with DW_FORM_ref_addr to a DIE of another CU and to one of
\* its own.
C10_Witness ==
    /\ info.pc = "done"
    /\ \E c \in 1..Len(info.cu_chain) : \E n, m \in RefsOf(c) :
          /\ Holders(info.cu_chain[c].die_refs[n].addr) = {c}
          /\ Holders(info.cu_chain[c].die_refs[m].addr) # {}
          /\ c \notin Holders(info.cu_chain[c].die_refs[m].addr)
    /\ info.references_sound

(***************************************************************************)
(* Bench of the checks of .debug_aranges and .debug_pubnames.  A section   *)
(* is a sequence of 1 to MaxTables units: well-formed tables in the 32-bit *)
(* and the 64-bit format, tables whose length field says less or more than *)
(* they hold, escape values and truncated headers.  The chain of CUs is    *)
(* NULL or the chain of one CU that check_debug_info_structural returns    *)
(* for the 13 bytes 09 00 00 00 02 00 00 00 00 00 04 01 00.                *)
(***************************************************************************)
MaxTables == 2
MaxTurns == 8

Zeros(n) == [i \in 1..n |-> 0]

ArUnit32(len, cu, asz) ==
    <<len, 0, 0, 0, 2, 0, cu, 0, 0, 0, asz, 0>> \o Zeros(12)

\* A set of 20 bytes whose header is padded by pad (4 bytes).
ArPadded32(pad) ==
    <<20, 0, 0, 0, 2, 0, 0, 0, 0, 0, 4, 0>> \o pad \o Zeros(8)

ArUnit64(len, cu) ==
    <<255, 255, 255, 255, len>> \o Zeros(7) \o <<3, 0, cu>> \o Zeros(7)
    \o <<4, 0, 1, 0, 0, 0, 2, 0, 0, 0>> \o Zeros(8)

PubUnit32(len, cu, off) ==
    <<len, 0, 0, 0, 2, 0, cu, 0, 0, 0, 13, 0, 0, 0, off, 0, 0, 0, 97, 0>> \o Zeros(4)

PubUnit64(len, cu) ==
    <<255, 255, 255, 255, len>> \o Zeros(7) \o <<2, 0, cu>> \o Zeros(7)
    \o <<13>> \o Zeros(7) \o <<11>> \o Zeros(7) \o <<97, 0>> \o Zeros(8)

\* Header words that are no length, and headers that end too early.
BadUnits ==
    { <<0, 255, 255, 255>>, <<254, 255, 255, 255>>, <<255, 255, 255, 255, 1, 0>>,
      <<20, 0>>, <<255, 255, 255, 255, 0, 0, 0, 0, 1, 0, 0, 0>> }

\* A 64-bit length of 2^64 - 12: ctx->ptr + size is the start of the unit.
WrapUnit == <<255, 255, 255, 255, 244, 255, 255, 255, 255, 255, 255, 255>>

ArUnits ==
    { ArUnit32(len, cu, asz) : len \in {12, 20, 28}, cu \in {0, 5}, asz \in {3, 4} }
    \cup { ArUnit64(28, cu) : cu \in {0, 5} }
    \cup { ArPadded32(pad) : pad \in { <<0, 0, 7, 0>>, <<0, 0, 0, 7>> } }
    \cup BadUnits \cup { WrapUnit }

PubUnits ==
    { PubUnit32(len, cu, off) : len \in {12, 20, 28}, cu \in {0, 5}, off \in {11, 12} }
    \cup { PubUnit64(36, cu) : cu \in {0, 5} }
    \cup BadUnits \cup { WrapUnit }

RECURSIVE TabSections(_, _)
TabSections(units, n) ==
    IF n = 0 THEN { << >> }
    ELSE TabSections(units, n - 1)
         \cup { s \o u : s \in TabSections(units, n - 1), u \in units }

\* What the memory holds after the section.
MemTails == { << >>, [i \in 1..8 |-> 255] }

TabCuChains ==
    { << >>,
      <<[offset |-> 0, length |-> 13,
         die_addrs |-> addr_record_add(<< >>, NatToBits(11)), die_refs |-> << >>]>> }

TabInit ==
    /\ tab \in { [pc |-> "enter", kind |-> kind,
                  ctx |-> read_ctx_init_sub(s \o t, 0, Len(s)),
                  cu_chain |-> cu_chain, retval |-> TRUE, msgs |-> << >>,
                  hist |-> << >>] :
                 kind \in {"aranges"}, s \in TabSections(ArUnits, MaxTables) \ { << >> },
                 t \in MemTails, cu_chain \in TabCuChains }
          \cup { [pc |-> "enter", kind |-> kind,
                  ctx |-> read_ctx_init_sub(s \o t, 0, Len(s)),
                  cu_chain |-> cu_chain, retval |-> TRUE, msgs |-> << >>,
                  hist |-> << >>] :
                 kind \in {"pubnames"}, s \in TabSections(PubUnits, MaxTables) \ { << >> },
                 t \in MemTails, cu_chain \in TabCuChains }
    /\ NoReader /\ NoCoverage /\ NoAbbrev /\ NoInfo /\ NoOut /\ NoRecord /\ NoRules

\* process_file calls the check; check_pubnames_structural begins with
\* assert (cu_chain).
TabEnter ==
    /\ tab.pc = "enter"
    /\ tab' = [tab EXCEPT !.pc = IF tab.kind = "pubnames" /\ tab.cu_chain = << >>
                                 THEN "abort" ELSE "loop"]
    /\ UNCHANGED <<rctx, rlast, cov, cov_marked, cov_holes, ab_in, ab_out, info, out, rec, rules>>

\* The turns of a loop that does not end are cut at MaxTurns.
ArangesTable ==
    /\ tab.pc = "loop" /\ tab.kind = "aranges"
    /\ ~read_ctx_eof(tab.ctx)
    /\ Len(tab.hist) < MaxTurns
    /\ \E uninit \in BOOLEAN : tab' = aranges_step(tab, uninit)
    /\ UNCHANGED <<rctx, rlast, cov, cov_marked, cov_holes, ab_in, ab_out, info, out, rec, rules>>

PubnamesSet ==
    /\ tab.pc = "loop" /\ tab.kind = "pubnames"
    /\ ~read_ctx_eof(tab.ctx)
    /\ Len(tab.hist) < MaxTurns
    /\ \E uninit \in BOOLEAN : tab' = pubnames_step(tab, uninit)
    /\ UNCHANGED <<rctx, rlast, cov, cov_marked, cov_holes, ab_in, ab_out, info, out, rec, rules>>

\* The loop ends at the end of the section: return retval.
TabReturn ==
    /\ tab.pc = "loop"
    /\ read_ctx_eof(tab.ctx)
    /\ tab' = [tab EXCEPT !.pc = "done"]
    /\ UNCHANGED <<rctx, rlast, cov, cov_marked, cov_holes, ab_in, ab_out, info, out, rec, rules>>

TabNext == TabEnter \/ ArangesTable \/ PubnamesSet \/ TabReturn

SpecTab == TabInit /\ [][TabNext]_vars

\* The calls of read_size_extra on record.
SizeCalls == { i \in 1..Len(tab.hist) : tab.hist[i].ev = "size" }

\* C4: at the call sites in check_aranges_structural and
\* check_pubnames_structural, after every call of read_size_extra: for the
\* header word 0xffffffff a call that succeeds has consumed the 8-byte length
\* and left dwarf_64 true; for a word from 0xffffff00 to 0xfffffffe the call
\* fails; for any other word the call succeeds with size equal to the word
\* and dwarf_64 false, so that the width of the offsets read afterwards
\* follows from the header word alone.
C4_WidthFromHeaderWord ==
    \A i \in SizeCalls :
        LET e == tab.hist[i]
        IN  IF e.size32 = DWARF3_LENGTH_64_BIT
            THEN e.ok => (e.dwarf_64 /\ e.consumed = 8)
            ELSE IF U64Le(DWARF3_LENGTH_MIN_ESCAPE_CODE, e.size32)
            THEN ~e.ok
            ELSE e.ok /\ e.size = e.size32 /\ ~e.dwarf_64 /\ e.consumed = 0

(***************************************************************************)
(* The printed severity of the padding reports of .debug_info.             *)
(***************************************************************************)
\* warning_criteria after any of the options --strict, --gnu and -i.
OptionCriteria ==
    { parse_opt(parse_opt(parse_opt(warning_criteria, a), b), c) :
        a \in {"strict", "none"}, b \in {"gnu", "none"}, c \in {"i", "none"} }

NoOutput == [text |-> << >>, error_count |-> 0]

\* The calls on record of check_debug_info_structural with this format.
InfoCalls(id) == { k \in 1..Len(info.msgs) : info.msgs[k].id = id }

\* C11: of the bytes left in a CU after its DIE chain, zero bytes are
\* reported in a category of impact 1 and bloat that is not printed as an
\* error; non-zero bytes are reported with error severity, whatever the
\* options: the report is printed, with the prefix 'error: '.
C11_CuPaddingSeverity ==
    /\ \A k \in InfoCalls("unnecessary padding with zero bytes") :
          /\ {"impact_1", "acc_bloat"} \subseteq info.msgs[k].cat
          /\ ~accept_message(error_criteria, info.msgs[k].cat)
    /\ \A k \in InfoCalls("unreferenced non-zero bytes") :
          \A wcrit \in OptionCriteria :
              print_call(NoOutput, wcrit, info.msgs[k]).text
                  = << <<"error: ", "unreferenced non-zero bytes">> >>

(***************************************************************************)
(* Bench of the messages: main parses the options, then the checks call    *)
(* message, wr_error and wr_warning at most MaxMessages times in all, then *)
(* main returns error_count != 0.  last is the last call made, with the    *)
(* stream as it was before the call.                                       *)
(***************************************************************************)
MaxMessages == 2

\* Categories with and without an area, a severity, an accuracy and mc_error.
MsgCategories ==
    { impact \cup acc \cup err \cup area :
        impact \in { {}, {"impact_1"}, {"impact_4"} },
        acc \in { {}, {"acc_bloat"} },
        err \in { {}, {"error"} },
        area \in { {}, {"strings"}, {"elf"}, {"die_other"} } }

OutInit ==
    /\ out = [pc |-> "args", wcrit |-> warning_criteria, o |-> NoOutput,
              last |-> [fn |-> "none", cat |-> {}, before |-> NoOutput], code |-> 0]
    /\ NoReader /\ NoCoverage /\ NoAbbrev /\ NoInfo /\ NoTab /\ NoRecord /\ NoRules

\* argp_parse calls parse_opt for an option of the command line.
OutOption ==
    /\ out.pc = "args"
    /\ \E key \in {"strict", "gnu", "i", "q"} :
          out' = [out EXCEPT !.wcrit = parse_opt(@, key)]
    /\ UNCHANGED <<rctx, rlast, cov, cov_marked, cov_holes, ab_in, ab_out, info, tab, rec, rules>>

\* argp_parse returns.
OutParsed ==
    /\ out.pc = "args"
    /\ out' = [out EXCEPT !.pc = "run"]
    /\ UNCHANGED <<rctx, rlast, cov, cov_marked, cov_holes, ab_in, ab_out, info, tab, rec, rules>>

OutMessage ==
    /\ out.pc = "run" /\ Len(out.o.text) < MaxMessages
    /\ \E cat \in MsgCategories :
          out' = [out EXCEPT !.o = vmessage(out.o, out.wcrit, cat, "m"),
                             !.last = [fn |-> "message", cat |-> cat, before |-> out.o]]
    /\ UNCHANGED <<rctx, rlast, cov, cov_marked, cov_holes, ab_in, ab_out, info, tab, rec, rules>>

OutWrError ==
    /\ out.pc = "run" /\ Len(out.o.text) < MaxMessages
    /\ out' = [out EXCEPT !.o = verror(out.o, "m"),
                          !.last = [fn |-> "wr_error", cat |-> {}, before |-> out.o]]
    /\ UNCHANGED <<rctx, rlast, cov, cov_marked, cov_holes, ab_in, ab_out, info, tab, rec, rules>>

OutWrWarning ==
    /\ out.pc = "run" /\ Len(out.o.text) < MaxMessages
    /\ out' = [out EXCEPT !.o = vwarning(out.o, "m"),
                          !.last = [fn |-> "wr_warning", cat |-> {}, before |-> out.o]]
    /\ UNCHANGED <<rctx, rlast, cov, cov_marked, cov_holes, ab_in, ab_out, info, tab, rec, rules>>

\* main: return error_count != 0.
OutExit ==
    /\ out.pc = "run"
    /\ out' = [out EXCEPT !.pc = "exit", !.code = IF out.o.error_count # 0 THEN 1 ELSE 0]
    /\ UNCHANGED <<rctx, rlast, cov, cov_marked, cov_holes, ab_in, ab_out, info, tab, rec, rules>>

OutNext == OutOption \/ OutParsed \/ OutMessage \/ OutWrError \/ OutWrWarning \/ OutExit

SpecOut == OutInit /\ [][OutNext]_vars

\* C12: a call of message whose category the filter does not accept (accept
\* and category share a bit, reject and category share none) prints nothing
\* and leaves error_count alone; an accepted one with mc_error or mc_impact_4
\* prints 'error: ' and adds one to error_count; any other accepted one
\* prints 'warning: ' and leaves error_count alone; and a run that printed
\* no 'error: ' line exits with code zero.
C12_FilterAndSeverity ==
    /\ out.last.fn = "message" =>
          IF ~(out.wcrit.accept \cap out.last.cat # {}
               /\ out.wcrit.reject \cap out.last.cat = {})
          THEN out.o = out.last.before
          ELSE IF out.last.cat \cap {"error", "impact_4"} # {}
          THEN /\ out.o.text = Append(out.last.before.text, <<"error: ", "m">>)
               /\ out.o.error_count = out.last.before.error_count + 1
          ELSE /\ out.o.text = Append(out.last.before.text, <<"warning: ", "m">>)
               /\ out.o.error_count = out.last.before.error_count
    /\ (out.pc = "exit" /\ \A k \in 1..Len(out.o.text) : out.o.text[k][1] # "error: ")
          => out.code = 0

(***************************************************************************)
(* process_file: the stages of one file in their order.  The driver keeps  *)
(* in tab, until the first table check is entered, the sections still to   *)
(* be read: info_data, aranges_data and pubnames_data (all three present,  *)
(* as is .debug_str).                                                      *)
(***************************************************************************)
FileAbbrevs == { InfoAbbrev, <<1>>, <<0>> }

FileInfos ==
    { CuBytes(<<1, 0>>), CuBytes(<<2, 11, 0>>), CuBytes(<<2, 13, 0>>),
      CuBytes(<<2>>), <<0, 0>>, <<5, 0, 0, 0, 2>> }

FileAranges32 == { ArUnit32(20, cu, 4) : cu \in {0, 5} } \cup { <<20, 0>> }

FilePubnames32 == { PubUnit32(20, cu, 11) : cu \in {0, 5} } \cup { <<20, 0>> }

FileInit ==
    /\ ab_in \in FileAbbrevs
    /\ ab_out = [pc |-> "none"]
    /\ info = [pc |-> "none"]
    /\ tab \in { [pc |-> "file", info_data |-> i, aranges_data |-> a, pubnames_data |-> p] :
                 i \in FileInfos, a \in FileAranges32, p \in FilePubnames32 }
    /\ NoReader /\ NoCoverage /\ NoOut /\ NoRecord /\ NoRules

\* if (abbrev_chain != NULL) cu_chain = check_debug_info_structural (...);
\* otherwise cu_chain stays NULL and the stage is skipped.
FileInfo ==
    /\ ab_out.pc = "loaded" /\ info.pc = "none" /\ tab.pc = "file"
    /\ info' = IF ab_out.chain # << >>
               THEN [pc |-> "loop", ctx |-> read_ctx_init(tab.info_data),
                     chain |-> ab_out.chain,
                     strings |-> [present |-> TRUE, data |-> << >>, tail |-> 0],
                     strcov |-> NULL, cu_chain |-> << >>,
                     success |-> TRUE, msgs |-> << >>, hist |-> << >>,
                     references_sound |-> TRUE, result |-> << >>]
               ELSE [pc |-> "skipped", result |-> << >>]
    /\ UNCHANGED <<rctx, rlast, cov, cov_marked, cov_holes, ab_in, ab_out, tab, out, rec, rules>>

\* if (aranges_data != NULL) check_aranges_structural (&ctx, cu_chain);
FileAranges ==
    /\ info.pc \in {"done", "skipped"} /\ tab.pc = "file"
    /\ tab' = [pc |-> "enter", kind |-> "aranges",
               ctx |-> read_ctx_init(tab.aranges_data),
               cu_chain |-> info.result, retval |-> TRUE, msgs |-> << >>,
               hist |-> << >>, pubnames_data |-> tab.pubnames_data]
    /\ UNCHANGED <<rctx, rlast, cov, cov_marked, cov_holes, ab_in, ab_out, info, out, rec, rules>>

\* if (pubnames_data != NULL) check_pubnames_structural (&ctx, cu_chain);
FilePubnames ==
    /\ tab.pc = "done" /\ tab.kind = "aranges"
    /\ tab' = [pc |-> "enter", kind |-> "pubnames",
               ctx |-> read_ctx_init(tab.pubnames_data),
               cu_chain |-> info.result, retval |-> TRUE, msgs |-> << >>,
               hist |-> << >>, pubnames_data |-> tab.pubnames_data]
    /\ UNCHANGED <<rctx, rlast, cov, cov_marked, cov_holes, ab_in, ab_out, info, out, rec, rules>>

FileNext ==
    \/ AbbrevLoad
    \/ FileInfo
    \/ InfoCU
    \/ InfoFinish
    \/ FileAranges
    \/ TabEnter
    \/ ArangesTable
    \/ TabReturn
    \/ FilePubnames
    \/ PubnamesSet

SpecFile == FileInit /\ [][FileNext]_vars

\* C13: when the .debug_info stage yields a null CU list (it failed, or it
\* was skipped as no abbreviations loaded), process_file runs neither
\* check_aranges_structural nor check_pubnames_structural, and no assertion
\* is violated.
C13_NullListSkipsTables ==
    (info.pc \in {"done", "skipped"} /\ info.result = << >>) =>
        tab.pc = "file"

NonZeroPadding == "non-zero byte in padding before the first entry"

PaddingCalls == { i \in 1..Len(tab.msgs) : tab.msgs[i].id = NonZeroPadding }

\* C14: each message about a non-zero byte in the padding of an aranges
\* header is an impact-2 message, and the offset it prints, relative to the
\* table, is that of the non-zero byte itself.
C14_PaddingByteOffset ==
    \A i \in PaddingCalls :
        LET m == tab.msgs[i]
            at == m.args[1] + m.args[3]
        IN  /\ m.fn = "message" /\ "impact_2" \in m.cat
            /\ at < Len(tab.ctx.data)
            /\ tab.ctx.data[at + 1] # 0

\* C15: a DIE whose abbreviation has children and that has no DW_AT_sibling
\* gets the message 'This DIE had children, but no DW_AT_sibling attribute'
\* when the next abbreviation code of the same chain is read.
C15_ChildrenWithoutSibling ==
    \A i \in HistOf("die") :
        (Hist[i].has_children /\ Hist[i].sibs = << >> /\ LaterCodes(i) # {}) =>
            HadChildren \in Hist[Min(LaterCodes(i))].errs

\* The error of the chain of entry e of the history.
ChainErrors(e) ==
    { k \in 1..Len(info.msgs) : /\ info.msgs[k].id = NotTerminated
                                /\ info.msgs[k].fn = "wr_error"
                                /\ info.msgs[k].args = <<Hist[e].cu_offset, Hist[e].chain>> }

\* C16: every DIE chain, top-level or of children, whose reader reaches its
\* end without a zero abbreviation code gets the error 'DIE chain not
\* terminated with DIE with zero abbrev code', wherever the end was reached:
\* right after a code, after the last attribute of a DIE, or before any
\* byte of the chain.
C16_UnterminatedChainError ==
    info.pc = "done" =>
        \A e \in HistOf("end") : ~Hist[e].zero => ChainErrors(e) # {}

\* The byte at offset k of .debug_info.
InfoByte(k) == info.ctx.data[k + 1]

\* The DIEs of abbreviation 7 (one attribute of form DW_FORM_indirect)
\* whose attribute was read, and the form it resolved to.
IndirectDies == { i \in HistOf("die") : Hist[i].code = NatToBits(7) }

ResolvedForm(i) == InfoByte(Hist[i].cu_offset + Hist[i].off + 1)

\* The calls of record_ref for the DIE of entry i.
RefCalls(i) ==
    { r \in HistOf("ref") : /\ Hist[r].cu_offset = Hist[i].cu_offset
                            /\ Hist[r].who = Hist[i].off }

AgainIndirect == "Indirect form is again indirect"

\* C17: an attribute of form DW_FORM_indirect that resolves to the form F
\* is treated as one of form F: a CU-local reference form gives the local
\* reference record, DW_FORM_ref_addr the global one, a form that is no
\* reference gives none, and a form that is again DW_FORM_indirect is
\* rejected with an error.
C17_IndirectAsResolved ==
    /\ \A i \in IndirectDies :
          /\ ResolvedForm(i) \in {DW_FORM_ref1, DW_FORM_ref2, DW_FORM_ref4, DW_FORM_ref8,
                                  DW_FORM_ref_udata}
                => \E r \in RefCalls(i) : Hist[r].local
          /\ ResolvedForm(i) = DW_FORM_ref_addr => \E r \in RefCalls(i) : ~Hist[r].local
          /\ ResolvedForm(i) = DW_FORM_data1 => RefCalls(i) = {}
          /\ ResolvedForm(i) # DW_FORM_indirect
    /\ \A s \in HistOf("start") :
          (/\ InfoByte(Hist[s].cu_offset + Hist[s].off) = 7
           /\ InfoByte(Hist[s].cu_offset + Hist[s].off + 1) = DW_FORM_indirect
           /\ info.pc = "done")
             => \E k \in 1..Len(info.msgs) : info.msgs[k].id = AgainIndirect

\* The CU length word at offset k of .debug_info (the CUs of the bench
\* are 32-bit ones: their length field is of 4 bytes).
LengthWord(k) ==
    InfoByte(k) + 256 * InfoByte(k + 1) + 65536 * InfoByte(k + 2) + 16777216 * InfoByte(k + 3)

\* C18: every CU descriptor of the list check_debug_info_structural returns
\* has length = size of the length field + claimed length; none of them
\* stands for padding bytes.
C18_DescriptorLengths ==
    info.pc = "done" =>
        \A k \in 1..Len(info.result) :
            /\ info.result[k].offset + 4 <= Len(info.ctx.data)
            /\ LengthWord(info.result[k].offset) # 0
            /\ info.result[k].length = 4 + LengthWord(info.result[k].offset)

\* The last operation was a read_sleb128 that gave a value.
SlebRead == rlast.op = "read_sleb128" /\ ~rlast.failed

\* Bit 6 of a byte: the sign bit of its group.
SignBit(byte) == (byte \div 64) % 2 = 1

\* C19 (as amended): for every complete SLEB128 encoding that read_sleb128
\* accepts the status is 0 or 1, and it is 1 iff the last group is not the
\* first one and its payload is the fill of the sign bit of the group
\* before it: 0x7f when bit 6 of the preceding byte is set, 0x00 when it is
\* clear.
C19_SlebTailStatus ==
    SlebRead =>
        \E n \in 1 .. MaxRun + 2 :
            /\ EncodingHasLength(n)
            /\ rlast.st \in {0, 1}
            /\ rlast.st = 1 <=>
                  /\ n > 1
                  /\ \/ BeforeByte(n - 1) = 127 /\ SignBit(BeforeByte(n - 2))
                     \/ BeforeByte(n - 1) = 0 /\ ~SignBit(BeforeByte(n - 2))

\* An encoding of two bytes whose second group is the fill of the first
\* one's sign, and one whose second group is 0x7f after a group without
\* the sign bit.
C19_Witness ==
    /\ SlebRead /\ EncodingHasLength(2)
    /\ \/ rlast.st = 1 /\ BeforeByte(0) = 255 /\ BeforeByte(1) = 127
       \/ rlast.st = 0 /\ BeforeByte(0) = 128 /\ BeforeByte(1) = 127

\* C19 as stated: the status is 1 iff the last group is not the first one
\* and its payload is the sign fill of the decoded value (0x7f for a
\* negative value, 0x00 for a non-negative one).
C19_Original ==
    SlebRead =>
        \E n \in 1 .. MaxRun + 2 :
            /\ EncodingHasLength(n)
            /\ rlast.st \in {0, 1}
            /\ rlast.st = 1 <=>
                  /\ n > 1
                  /\ BeforeByte(n - 1) = (IF WordBits - 1 \in rlast.ret THEN 127 ELSE 0)

(***************************************************************************)
(* The bench of struct addr_record: rec is [pc, ar, added, adds, last]; ar *)
(* is the array, added the set of the addresses handed to addr_record_add  *)
(* so far, adds the number of these calls and last the last call with the  *)
(* array before it and what it returned.                                   *)
(***************************************************************************)
MaxAdds == 4

RecAddrs == { NatToBits(n) : n \in {0, 1, 11, 14, 25} } \cup { {63}, 0..63 }

RecInit ==
    /\ rec = [pc |-> "run", ar |-> << >>, added |-> {}, adds |-> 0,
              last |-> [op |-> "none", addr |-> {}, before |-> << >>, ret |-> 0]]
    /\ NoReader /\ NoCoverage /\ NoAbbrev /\ NoInfo /\ NoTab /\ NoOut /\ NoRules

RecAdd ==
    /\ rec.pc = "run" /\ rec.adds < MaxAdds
    /\ \E addr \in RecAddrs :
          rec' = [rec EXCEPT !.ar = addr_record_add(@, addr),
                             !.added = @ \cup {addr},
                             !.adds = @ + 1,
                             !.last = [op |-> "add", addr |-> addr, before |-> rec.ar,
                                       ret |-> 0]]
    /\ UNCHANGED <<rctx, rlast, cov, cov_marked, cov_holes, ab_in, ab_out, info, tab, out, rules>>

RecFind ==
    /\ rec.pc = "run"
    /\ \E addr \in RecAddrs :
          rec' = [rec EXCEPT !.last = [op |-> "find", addr |-> addr, before |-> rec.ar,
                                       ret |-> addr_record_find_addr(rec.ar, addr)]]
    /\ UNCHANGED <<rctx, rlast, cov, cov_marked, cov_holes, ab_in, ab_out, info, tab, out, rules>>

RecHas ==
    /\ rec.pc = "run"
    /\ \E addr \in RecAddrs :
          rec' = [rec EXCEPT !.last = [op |-> "has", addr |-> addr, before |-> rec.ar,
                                       ret |-> IF addr_record_has_addr(rec.ar, addr)
                                               THEN 1 ELSE 0]]
    /\ UNCHANGED <<rctx, rlast, cov, cov_marked, cov_holes, ab_in, ab_out, info, tab, out, rules>>

RecNext == RecAdd \/ RecFind \/ RecHas

SpecRec == RecInit /\ [][RecNext]_vars

\* The number of the addresses of the array that are below addr.
Below(ar, addr) == Cardinality({ k \in 1..Len(ar) : U64Lt(ar[k], addr) })

\* C20: after any sequence of addr_record_add calls the array is strictly
\* increasing, addr_record_find_addr gives the lower-bound index of an
\* address, addr_record_has_addr is true iff the address was added before,
\* and the add of an address the array holds leaves it as it was.
C20_AddrRecordSorted ==
    /\ \A k \in 1..(Len(rec.ar) - 1) : U64Lt(rec.ar[k], rec.ar[k + 1])
    /\ { rec.ar[k] : k \in 1..Len(rec.ar) } = rec.added
    /\ rec.last.op = "find" => rec.last.ret = Below(rec.ar, rec.last.addr)
    /\ rec.last.op = "has" => (rec.last.ret = 1 <=> rec.last.addr \in rec.added)
    /\ (rec.last.op = "add" /\ \E k \in 1..Len(rec.last.before) :
                                   rec.last.before[k] = rec.last.addr)
          => rec.ar = rec.last.before

\* An address below 2^63 was added between two others, one of them above
\* 2^63, and then added again.
C20_Witness ==
    /\ Len(rec.ar) = 3
    /\ rec.ar[1] = NatToBits(1) /\ rec.ar[2] = NatToBits(14) /\ rec.ar[3] = {63}
    /\ rec.last.op = "add" /\ rec.last.addr = NatToBits(14)
    /\ rec.last.before = rec.ar
    /\ rec.adds = 4

\* C21 (as amended): the chain abbrev_table_load returns, traversed from
\* its head through next, has strictly decreasing offsets: each new table
\* is linked in at the head, so the last table of the section comes first.
C21_ChainOffsetsDecreasing ==
    ab_out.pc = "loaded" =>
        \A k \in 1..(Len(ab_out.chain) - 1) :
            ab_out.chain[k].offset > ab_out.chain[k + 1].offset

\* A chain of two tables, the one at offset 0 last.
C21_Witness ==
    /\ ab_out.pc = "loaded" /\ Len(ab_out.chain) = 2
    /\ ab_out.chain[2].offset = 0 /\ ab_out.chain[1].offset > 0

\* C21 as stated: from the head on the offsets are strictly increasing.
C21_Original ==
    ab_out.pc = "loaded" =>
        \A k \in 1..(Len(ab_out.chain) - 1) :
            ab_out.chain[k].offset < ab_out.chain[k + 1].offset

(***************************************************************************)
(* The tables of .debug_aranges and .debug_pubnames inside their section.  *)
(***************************************************************************)
\* The end of the sub-reader made after the call i of read_size_extra:
\* ctx->ptr + size.
SubEnd(i) == PtrPlus(tab.hist[i].ptr, tab.hist[i].size)

\* C22: in check_aranges_structural and check_pubnames_structural every
\* sub-reader lies within its parent (begin_parent <= begin_sub <= end_sub <=
\* end_parent), whatever length the header claims, and the outer cursor never
\* moves past the end of the section.
C22_SubReadersInsideParent ==
    /\ tab.ctx.ptr <= tab.ctx.end
    /\ \A i \in SizeCalls :
           LET e == tab.hist[i]
           IN  e.ok => /\ PtrKept([ptr |-> e.ptr], e.size)
                       /\ tab.ctx.begin <= e.begin
                       /\ e.begin <= SubEnd(i)
                       /\ SubEnd(i) <= e.end

\* C23: in both checks each turn of the loop over the tables strictly
\* advances the outer cursor towards the end of the section, also when a
\* 64-bit length is so large that ctx->ptr + size wraps modulo 2^64.
C23_EachTurnAdvances ==
    [][(tab.pc = "loop" /\ tab'.pc = "loop") => tab'.ctx.ptr > tab.ctx.ptr]_vars

\* C24: the assertion at the start of check_zero_padding (ctx->ptr !=
\* ctx->end) holds at every call made by check_debug_info_structural, for
\* every input, also when a 32-bit CU length of 0 fills the last four bytes
\* of .debug_info.
C24_PaddingAssertionHolds == info.pc # "abort"

\* C25: in check_pubnames_structural a set whose CU offset matches no CU of
\* a non-empty CU list gets the error 'unresolved reference to CU' and is
\* then handled without the use of any field of a CU descriptor that does
\* not exist: cu->length is never read through the null pointer that
\* cu_find_cu gave.
C25_UnresolvedCuHandled == tab.pc # "crash"

\* C26: for every accepted DW_FORM_strp offset (one below the size of
\* .debug_str) the computation of the end of the string examines only bytes
\* inside .debug_str, and the range given to coverage_add has begin <= end <
\* size, also when the last string of the section has no terminating zero.
C26_StringInsideSection ==
    \A i \in HistOf("strp") :
        /\ Hist[i].addr <= Hist[i].end
        /\ Hist[i].end < Len(info.strings.data)

\* The abbreviation of the DIE of entry i, as the loader stored it.
AbbrevOf(i) ==
    LET abbr == info.chain[Hist[i].table].abbr
    IN  abbr[CHOOSE k \in 1..Len(abbr) : abbr[k].code = Hist[i].code]

\* C27: read_die_chain decodes exactly one value for each attribute pair
\* that the loader stored before the (0, 0) terminator: a stored pair with
\* name 0 and a nonzero form does not end the walker's loop over the
\* attributes early.
C27_OneValuePerStoredPair ==
    \A i \in HistOf("die") : Hist[i].values = Len(AbbrevOf(i).attribs) - 1

\* Whether the abbreviation code was reported as never used for the CU at
\* cu_offset, and whether a DIE of that CU used it.
NeverUsedReported(cu_offset, code) ==
    \E m \in 1..Len(info.msgs) :
        /\ info.msgs[m].id = "Abbreviation is never used"
        /\ info.msgs[m].args = <<cu_offset, code>>

UsedIn(cu_offset, code) ==
    \E j \in HistOf("die") : Hist[j].cu_offset = cu_offset /\ Hist[j].code = code

\* C28: when several CUs select the same abbreviation table, an
\* abbreviation is reported as never used for a CU exactly when no DIE of
\* that CU uses it, whichever CUs that share the table were walked before
\* (every CU here selects the one table of the chain).
C28_NeverUsedPerCU ==
    \A i \in HistOf("cu") :
        Hist[i].walked =>
            \A k \in 1..Len(info.chain[1].abbr) :
                NeverUsedReported(Hist[i].cu_offset, info.chain[1].abbr[k].code)
                    <=> ~UsedIn(Hist[i].cu_offset, info.chain[1].abbr[k].code)

\* C29: every nonzero abbreviation code that abbrev_table_load reads ends
\* in a stored abbreviation or in an error message: the load that fails
\* has given an error, and the load that succeeds was not left with a
\* nonzero code in hand, as after a section that ends right after the code.
C29_CodeStoredOrReported ==
    ab_out.pc = "loaded" =>
        /\ ~ab_out.ok => \E m \in 1..Len(ab_out.msgs) : ab_out.msgs[m].fn = "wr_error"
        /\ ab_out.ok => ab_out.last_code = {}

(***************************************************************************)
(* The check rules of the scheduler.  A rule is [name, action], a check    *)
(* descriptor [name, groups]; a check stack is a sequence of descriptors.  *)
(* rules is [pc, list, last]: list is the check_rules (a vector of rules)  *)
(* and last the last call of should_check: the rules and the stack it had  *)
(* and what it returned.                                                   *)
(***************************************************************************)
MaxRules == 3
MaxStack == 2

rule_matches(name, d) ==
    IF name = "@all" THEN TRUE
    ELSE IF name = "@none" THEN FALSE
    ELSE IF name = d.name THEN TRUE
    ELSE \E it \in 1..Len(d.groups) : name = d.groups[it]

\* The loop of should_check that ends at the first rule that matches.
RECURSIVE should_check_first(_, _, _, _)
should_check_first(list, stack, it, should) ==
    IF it > Len(list) THEN should
    ELSE IF \E jt \in 1..Len(stack) : rule_matches(list[it].name, stack[jt])
    THEN list[it].action = "request"
    ELSE should_check_first(list, stack, it + 1, should)

\* The loop over the rules: a rule whose action is what should already
\* holds is passed over, any other sets should when it matches a descriptor
\* of the stack.
RECURSIVE should_check_loop(_, _, _, _)
should_check_loop(list, stack, it, should) ==
    IF it > Len(list) THEN should
    ELSE LET nflag == list[it].action = "request"
         IN  IF nflag = should
             THEN should_check_loop(list, stack, it + 1, should)
             ELSE IF \E jt \in 1..Len(stack) : rule_matches(list[it].name, stack[jt])
             THEN should_check_loop(list, stack, it + 1, nflag)
             ELSE should_check_loop(list, stack, it + 1, should)

should_check(list, stack) == should_check_loop(list, stack, 1, FALSE)

RuleNames == { "@all", "@none", "a", "g" }

Rules == { [name |-> n, action |-> a] : n \in RuleNames, a \in { "request", "forbid" } }

Descriptors ==
    { [name |-> "a", groups |-> << >>], [name |-> "b", groups |-> <<"g">>],
      [name |-> "c", groups |-> <<"h", "g">>], [name |-> "d", groups |-> <<"h">>] }

RECURSIVE Stacks(_)
Stacks(n) ==
    IF n = 0 THEN { << >> }
    ELSE LET shorter == Stacks(n - 1)
         IN  shorter \cup { Append(s, d) : s \in shorter, d \in Descriptors }

RulesInit ==
    /\ rules = [pc |-> "run", list |-> << >>,
                last |-> [called |-> FALSE, list |-> << >>, stack |-> << >>,
                          ret |-> FALSE]]
    /\ NoReader /\ NoCoverage /\ NoAbbrev /\ NoInfo /\ NoTab /\ NoOut /\ NoRecord

\* A rule is appended to the check_rules.
RuleAdd ==
    /\ rules.pc = "run" /\ Len(rules.list) < MaxRules
    /\ \E r \in Rules : rules' = [rules EXCEPT !.list = Append(@, r)]
    /\ UNCHANGED <<rctx, rlast, cov, cov_marked, cov_holes, ab_in, ab_out, info, tab, out, rec>>

ShouldCheck ==
    /\ rules.pc = "run"
    /\ \E stack \in Stacks(MaxStack) :
          rules' = [rules EXCEPT !.last = [called |-> TRUE, list |-> rules.list,
                                           stack |-> stack,
                                           ret |-> should_check(rules.list, stack)]]
    /\ UNCHANGED <<rctx, rlast, cov, cov_marked, cov_holes, ab_in, ab_out, info, tab, out, rec>>

RulesNext == RuleAdd \/ ShouldCheck

SpecRules == RulesInit /\ [][RulesNext]_vars

\* The rules of the list that match a descriptor of the stack: '@all'
\* matches every descriptor, '@none' none, any other name the descriptor of
\* that name and those that have it among their groups.
Matching(list, stack) ==
    { i \in 1..Len(list) :
        /\ list[i].name # "@none"
        /\ \E j \in 1..Len(stack) :
              \/ list[i].name = "@all"
              \/ list[i].name = stack[j].name
              \/ \E g \in 1..Len(stack[j].groups) : stack[j].groups[g] = list[i].name }

\* C30: should_check (stack) is true exactly when the last rule, in the
\* order of the rules, that matches a descriptor of the stack has the
\* action request; it is false when no rule matches and when there is no
\* rule.
C30_LastMatchingRuleDecides ==
    rules.last.called =>
        LET matching == Matching(rules.last.list, rules.last.stack)
        IN  rules.last.ret <=>
                /\ matching # {}
                /\ rules.last.list[CHOOSE i \in matching : \A k \in matching : k <= i].action
                       = "request"

\* A forbid rule matched after a request rule that matched too.
C30_Witness ==
    /\ rules.last.called /\ ~rules.last.ret
    /\ rules.last.list = <<[name |-> "@all", action |-> "request"],
                           [name |-> "g", action |-> "forbid"],
                           [name |-> "a", action |-> "request"]>>
    /\ rules.last.stack = <<[name |-> "c", groups |-> <<"h", "g">>]>>

====
